---- MODULE Spec2Model ----
(***************************************************************************)
(* The document question-answering client: the Home page (one per browser  *)
(* tab) with its Sidebar and its ChatInterface, the browser's local        *)
(* storage shared by the tabs, and the route handlers that forward the     *)
(* browser's requests to the backend.                                      *)
(*                                                                         *)
(* Strings the code inspects character by character (file names, the text  *)
(* typed in the question box) are sequences of one-character strings; a    *)
(* string the code only passes on or compares is a one-element sequence.   *)
(* The empty sequence is the empty string, and also null/undefined where   *)
(* the code only tests truthiness.                                         *)
(***************************************************************************)
EXTENDS Integers, Sequences, FiniteSets, TLC

VARIABLES
    tabs,           \* the browser tabs that are open on the application
    limit,          \* how many user operations the exploration follows
    storage,        \* window.localStorage: key -> <<>> (no such key) or <<value>>
    issued,         \* the collection ids the backend has issued so far
    ops,            \* user operations performed so far: bounds the exploration, and is
                    \* the time Date.now() reads (time passes when the user acts)
    collectionId,   \* Home: collectionId of each tab (Null: the upload panel is shown)
    chat,           \* ChatInterface: the component state of each tab
    pending,        \* the fetches of each tab's ChatInterface still awaiting their response
    conversations,  \* Sidebar: the conversation list of each tab
    runs,           \* Sidebar: the loadConversations runs of each tab awaiting their fetches
    events,         \* the storage events queued for each tab's window
    formLimit,      \* how many operations on the upload panel and the splitter it follows
    formOps,        \* operations on the upload panel and the splitter performed so far
    panel,          \* FileUploadPanel: the component state of each tab
    showSplitModal, \* Home: showSplitModal of each tab
    splitter,       \* PdfSplitter: the component state of each tab
    opened,         \* what the window last opened by window.open of each tab received
    fileName,       \* the name of the file handed to isAllowedFile
    allowed,        \* what isAllowedFile returned for it ("unknown" before the call)
    call,           \* the request handed to a route handler and what its fetch will get
    reply           \* <<>>, or the response the route handler returned for it

chatVars == <<storage, issued, ops, collectionId, chat, pending, conversations, runs, events>>
formVars == <<formOps, panel, showSplitModal, splitter, opened>>
consts == <<tabs, limit, formLimit, fileName, allowed, call, reply>>
vars == <<consts, chatVars, formVars>>

----------------------------------------------------------------------------
(* Bounds of the exploration *)

MaxOps == 2
MaxOpsTabs == 2
MaxOpsForms == 2
MaxFormOps == 4
MaxRuns == 1
MaxNameLen == 5
MaxOpsSwitch == 3

Tabs == {"t1", "t2"}
Collections == {"c1", "c2"}
Null == "null"

----------------------------------------------------------------------------
(* Strings *)

Whitespace == {" "}

RECURSIVE TrimStart(_)
TrimStart(s) ==
    IF s # <<>> /\ Head(s) \in Whitespace THEN TrimStart(Tail(s)) ELSE s

RECURSIVE TrimEnd(_)
TrimEnd(s) ==
    IF s # <<>> /\ s[Len(s)] \in Whitespace
    THEN TrimEnd(SubSeq(s, 1, Len(s) - 1)) ELSE s

Trim(s) == TrimEnd(TrimStart(s))

ToLowerCaseChar(ch) ==
    CASE ch = "P" -> "p"
      [] ch = "D" -> "d"
      [] ch = "F" -> "f"
      [] ch = "O" -> "o"
      [] ch = "C" -> "c"
      [] ch = "X" -> "x"
      [] OTHER -> ch

ToLowerCase(s) == [i \in 1..Len(s) |-> ToLowerCaseChar(s[i])]

SetMax(S) == CHOOSE x \in S : \A y \in S : y <= x

(* name.split(".").pop() : the part after the last dot, the whole name when
   it has no dot *)
SplitPop(s) ==
    LET dots == {i \in 1..Len(s) : s[i] = "."}
    IN IF dots = {} THEN s ELSE SubSeq(s, SetMax(dots) + 1, Len(s))

ALLOWED_EXTENSIONS ==
    {<<"p", "d", "f">>, <<"d", "o", "c">>, <<"d", "o", "c", "x">>}

isAllowedFile(name) == ToLowerCase(SplitPop(name)) \in ALLOWED_EXTENSIONS

----------------------------------------------------------------------------
(* Local storage *)

Prefixes == {"chat_", "filename_", "filenames_", "processing_"}
Keys == Prefixes \X Collections

ChatKey(c) == <<"chat_", c>>
FilenameKey(c) == <<"filename_", c>>
FilenamesKey(c) == <<"filenames_", c>>
ProcessingKey(c) == <<"processing_", c>>

SetItem(store, k, v) == [store EXCEPT ![k] = <<v>>]
RemoveItem(store, k) == [store EXCEPT ![k] = <<>>]
ObjectKeys(store) == {k \in Keys : store[k] # <<>>}
StartsWith(k, prefix) == k[1] = prefix

(* JSON text of a list of file names; text that JSON.parse rejects has
   ok = FALSE *)
JsonNames(names) == [ok |-> TRUE, names |-> names]
NotJson == [ok |-> FALSE, names |-> <<>>]

----------------------------------------------------------------------------
(* Messages.  conv is not a field of the program's Message: it records the
   conversation a message was typed in, answered for or loaded for. *)

WELCOME == <<"Hello! I'm ready to answer questions about your uploaded document. What would you like to know?">>
APOLOGY == <<"Sorry, I encountered an error. Please try again.">>
UNSUPPORTED == <<"Unsupported file type. Please upload PDF or Word documents only.">>
UPLOAD_FAILED == <<"Failed to upload document.">>

NewMessage(c, role, content, now, variant) ==
    [conv |-> c, role |-> role, content |-> content, timestamp |-> now,
     variant |-> variant]

(* Date.prototype.toJSON and new Date(string) *)
ToISOString(d) == <<"iso", d>>
NewDate(iso) == iso[2]

(* JSON.stringify(messages): every Date becomes its ISO string *)
Stringify(msgs) ==
    [i \in 1..Len(msgs) |-> [msgs[i] EXCEPT !.timestamp = ToISOString(@)]]

(* JSON.parse(stored).map(msg => ({...msg, timestamp: new Date(msg.timestamp)})) *)
ParseMessages(stored) ==
    [i \in 1..Len(stored) |-> [stored[i] EXCEPT !.timestamp = NewDate(@)]]

----------------------------------------------------------------------------
(* ChatInterface: state and effects *)

InitChat ==
    [messages |-> <<>>, input |-> <<>>, isLoading |-> FALSE,
     isLoadingHistory |-> TRUE, filename |-> <<>>, isProcessing |-> TRUE,
     documentNames |-> <<>>, isUploadingDoc |-> FALSE, uploadError |-> <<>>]

(* checkProcessing of the processing-status effect *)
checkProcessing(st, c, store) ==
    IF store[ProcessingKey(c)] = <<"complete">>
    THEN [st EXCEPT !.isProcessing = FALSE] ELSE st

handleStorageChange_AnyKey(st, c, e) ==
    IF e.newValue = "complete" THEN [st EXCEPT !.isProcessing = FALSE] ELSE st

handleStorageChange_OtherValue(st, c, e) ==
    IF e.key = ProcessingKey(c) /\ e.newValue = "done"
    THEN [st EXCEPT !.isProcessing = FALSE] ELSE st

(* handleStorageChange: the listener of the processing-status effect *)
handleStorageChange(st, c, e) ==
    IF e.key = ProcessingKey(c) /\ e.newValue = "complete"
    THEN [st EXCEPT !.isProcessing = FALSE] ELSE st

SaveEffect_Merge(st, c, store) ==
    IF Len(st.messages) > 0 /\ ~st.isLoadingHistory
    THEN SetItem(store, ChatKey(c),
                 IF store[ChatKey(c)] = <<>> THEN Stringify(st.messages)
                 ELSE store[ChatKey(c)][1] \o Stringify(st.messages))
    ELSE store

(* The save-messages effect, run with the state and collectionId of the render
   it belongs to *)
SaveEffect(st, c, store) ==
    IF Len(st.messages) > 0 /\ ~st.isLoadingHistory
    THEN SetItem(store, ChatKey(c), Stringify(st.messages)) ELSE store

LoadHistoryStored_RemoveBoth(st, c, store) ==
    LET storedFilenames == store[FilenamesKey(c)]
        storedMessages == store[ChatKey(c)]
        broken == storedFilenames # <<>> /\ ~storedFilenames[1].ok
        st1 == IF store[FilenameKey(c)] # <<>> /\ ~broken
               THEN [st EXCEPT !.filename = store[FilenameKey(c)][1]] ELSE st
        st2 == IF storedFilenames # <<>> /\ ~broken /\ Len(storedFilenames[1].names) > 0
               THEN [st1 EXCEPT !.documentNames = storedFilenames[1].names] ELSE st1
        st3 == IF storedMessages # <<>>
               THEN [st2 EXCEPT !.messages = ParseMessages(storedMessages[1])] ELSE st2
    IN [st |-> st3,
        store |-> IF broken
                  THEN RemoveItem(RemoveItem(store, FilenamesKey(c)), FilenameKey(c))
                  ELSE store,
        hadStoredMessages |-> storedMessages # <<>>]

(* loadHistory up to its fetch: what it sets from local storage.  The result
   holds the new state, the new storage, hadStoredMessages and whether
   setMessages was called. *)
LoadHistoryStored(st, c, store) ==
    LET storedFilename == store[FilenameKey(c)]
        hasFilename == storedFilename # <<>> /\ storedFilename[1] # <<>>
        st1 == IF hasFilename THEN [st EXCEPT !.filename = storedFilename[1]] ELSE st
        storedFilenames == store[FilenamesKey(c)]
        parsed == storedFilenames[1]
        st2 == IF storedFilenames # <<>>
               THEN IF parsed.ok /\ Len(parsed.names) > 0
                    THEN [st1 EXCEPT !.documentNames = parsed.names,
                                     !.filename = IF hasFilename THEN @ ELSE parsed.names[1]]
                    ELSE st1
               ELSE IF hasFilename
                    THEN [st1 EXCEPT !.documentNames = <<storedFilename[1]>>]
                    ELSE st1
        store2 == IF storedFilenames # <<>> /\ ~parsed.ok
                  THEN RemoveItem(store, FilenamesKey(c)) ELSE store
        storedMessages == store[ChatKey(c)]
        st3 == IF storedMessages # <<>>
               THEN [st2 EXCEPT !.messages = ParseMessages(storedMessages[1])]
               ELSE st2
    IN [st |-> st3, store |-> store2, hadStoredMessages |-> storedMessages # <<>>]

----------------------------------------------------------------------------
(* The backend's answers and the route handlers that forward to it *)

ANSWER == <<"answer">>
ERROR_TEXT == <<"backend error text">>
FETCH_FAILED == <<"fetch failed">>
PARSE_FAILED == <<"Unexpected token">>
Doc1 == <<"a", ".", "p", "d", "f">>
Doc2 == <<"b", ".", "d", "o", "c">>
Exe == <<"b", ".", "e", "x", "e">>

EmptyBody ==
    [error |-> <<>>, message |-> <<>>, detail |-> <<>>, answer |-> <<>>,
     messages |-> <<>>, filename |-> <<>>, filenames |-> <<>>, upload_id |-> <<>>,
     collection_id |-> <<>>]

(* What fetch gives the route handler: it throws, or it resolves to a response
   with a status and a body; json says whether response.json() can parse the
   body (data is then what it yields; for a body that is not JSON, data.detail
   is the text response.text() yields). *)
BackendOk(data) == [kind |-> "ok", status |-> 200, json |-> TRUE, data |-> data]
BackendError(status, text) ==
    [kind |-> "error", status |-> status, json |-> TRUE,
     data |-> [EmptyBody EXCEPT !.detail = text]]
BackendText(status, text) ==
    [kind |-> IF status >= 200 /\ status <= 299 THEN "ok" ELSE "error",
     status |-> status, json |-> FALSE, data |-> [EmptyBody EXCEPT !.detail = text]]
BackendThrow == [kind |-> "throw", status |-> 0, json |-> FALSE, data |-> EmptyBody]

(* A field of the request's FormData as formData.get returns it: null, a File,
   or a string (text) *)
Str(text) == [type |-> "string", text |-> text]

ResponseOk(status) == status >= 200 /\ status <= 299

Or(a, b) == IF a # <<>> THEN a ELSE b

HistoryProxy_Surface(cid, out) ==
    IF cid = ""
    THEN [status |-> 400, calls |-> 0,
          body |-> [EmptyBody EXCEPT !.error = <<"Collection ID is required">>]]
    ELSE IF out.kind = "ok" /\ out.json
    THEN [status |-> 200, calls |-> 1, body |-> out.data]
    ELSE [status |-> IF out.kind = "error" THEN out.status ELSE 500, calls |-> 1,
          body |-> [EmptyBody EXCEPT !.collection_id = <<cid>>]]

(* GET /api/chat/history/[collectionId] *)
HistoryProxy(cid, out) ==
    IF cid = ""
    THEN [status |-> 400, calls |-> 0,
          body |-> [EmptyBody EXCEPT !.error = <<"Collection ID is required">>]]
    ELSE IF out.kind = "ok" /\ out.json
    THEN [status |-> 200, calls |-> 1, body |-> out.data]
    ELSE [status |-> 200, calls |-> 1,
          body |-> [EmptyBody EXCEPT !.collection_id = <<cid>>]]

ChatProxy_Retry(form, out) ==
    IF form.question.type # "string" \/ form.question.text = <<>>
    THEN [status |-> 400, calls |-> 0,
          body |-> [EmptyBody EXCEPT !.error = <<"Question is required">>]]
    ELSE IF form.collection_id.type # "string" \/ form.collection_id.text = ""
    THEN [status |-> 400, calls |-> 0,
          body |-> [EmptyBody EXCEPT !.error = <<"Collection ID is required">>]]
    ELSE IF out.kind = "throw"
    THEN [status |-> 500, calls |-> 2,
          body |-> [EmptyBody EXCEPT !.error = FETCH_FAILED]]
    ELSE IF ~out.json
    THEN [status |-> 500, calls |-> 2,
          body |-> [EmptyBody EXCEPT !.error = PARSE_FAILED]]
    ELSE IF ~ResponseOk(out.status)
    THEN [status |-> out.status, calls |-> 2,
          body |-> [EmptyBody EXCEPT
                      !.error = Or(out.data.detail, <<"Failed to get answer">>)]]
    ELSE [status |-> 200, calls |-> 1,
          body |-> [EmptyBody EXCEPT !.answer = out.data.answer]]

ChatProxy_CollectionFirst(form, out) ==
    IF form.collection_id.type # "string" \/ form.collection_id.text = ""
    THEN [status |-> 400, calls |-> 0,
          body |-> [EmptyBody EXCEPT !.error = <<"Collection ID is required">>]]
    ELSE IF form.question.type # "string" \/ form.question.text = <<>>
    THEN [status |-> 400, calls |-> 0,
          body |-> [EmptyBody EXCEPT !.error = <<"Question is required">>]]
    ELSE IF out.kind = "throw" \/ ~out.json
    THEN [status |-> 500, calls |-> 1,
          body |-> [EmptyBody EXCEPT !.error = FETCH_FAILED]]
    ELSE IF ~ResponseOk(out.status)
    THEN [status |-> out.status, calls |-> 1,
          body |-> [EmptyBody EXCEPT
                      !.error = Or(out.data.detail, <<"Failed to get answer">>)]]
    ELSE [status |-> 200, calls |-> 1,
          body |-> [EmptyBody EXCEPT !.answer = out.data.answer]]

(* POST /api/chat *)
ChatProxy(form, out) ==
    IF form.question.type # "string" \/ form.question.text = <<>>
    THEN [status |-> 400, calls |-> 0,
          body |-> [EmptyBody EXCEPT !.error = <<"Question is required">>]]
    ELSE IF form.collection_id.type # "string" \/ form.collection_id.text = ""
    THEN [status |-> 400, calls |-> 0,
          body |-> [EmptyBody EXCEPT !.error = <<"Collection ID is required">>]]
    ELSE IF out.kind = "throw"
    THEN [status |-> 500, calls |-> 1,
          body |-> [EmptyBody EXCEPT !.error = FETCH_FAILED]]
    ELSE IF ~out.json
    THEN [status |-> 500, calls |-> 1,
          body |-> [EmptyBody EXCEPT !.error = PARSE_FAILED]]
    ELSE IF ~ResponseOk(out.status)
    THEN [status |-> out.status, calls |-> 1,
          body |-> [EmptyBody EXCEPT
                      !.error = Or(out.data.detail, <<"Failed to get answer">>)]]
    ELSE [status |-> 200, calls |-> 1,
          body |-> [EmptyBody EXCEPT !.answer = out.data.answer]]

(* POST /api/upload *)
UploadProxy(form, out) ==
    IF form.file = <<>>
    THEN [status |-> 400, calls |-> 0,
          body |-> [EmptyBody EXCEPT !.message = <<"No file provided">>]]
    ELSE IF out.kind = "throw"
    THEN [status |-> 500, calls |-> 1,
          body |-> [EmptyBody EXCEPT !.message = FETCH_FAILED]]
    ELSE IF ~out.json
    THEN [status |-> 500, calls |-> 1,
          body |-> [EmptyBody EXCEPT !.message = PARSE_FAILED]]
    ELSE IF ~ResponseOk(out.status)
    THEN [status |-> out.status, calls |-> 1,
          body |-> [EmptyBody EXCEPT
                      !.message = Or(out.data.detail, <<"Failed to upload file">>)]]
    ELSE [status |-> 200, calls |-> 1,
          body |-> [EmptyBody EXCEPT
                      !.message = Or(out.data.message, <<"File uploaded successfully!">>),
                      !.filename = out.data.filename]]

(* What the backend may answer *)
HistoryOutcomes ==
    { BackendOk(EmptyBody),
      BackendOk([EmptyBody EXCEPT
                   !.messages = <<[role |-> "assistant", content |-> ANSWER]>>,
                   !.filename = Doc1]),
      BackendError(500, ERROR_TEXT),
      BackendThrow }

ChatOutcomes ==
    { BackendOk([EmptyBody EXCEPT !.answer = ANSWER]),
      BackendError(500, ERROR_TEXT),
      BackendText(502, ERROR_TEXT),
      BackendThrow }

UploadOutcomes ==
    { BackendOk(EmptyBody),
      BackendOk([EmptyBody EXCEPT !.filename = Doc2]),
      BackendError(400, ERROR_TEXT),
      BackendThrow }

(* POST /api/split-pdf: the backend's error text is the body of its answer *)
SplitProxy(form, out) ==
    IF form.file = <<>>
    THEN [status |-> 400, calls |-> 0,
          body |-> [EmptyBody EXCEPT !.error = <<"No file provided">>]]
    ELSE IF out.kind = "throw"
    THEN [status |-> 500, calls |-> 1,
          body |-> [EmptyBody EXCEPT !.error = <<"Failed to split PDF">>]]
    ELSE IF ~ResponseOk(out.status)
    THEN [status |-> out.status, calls |-> 1,
          body |-> [EmptyBody EXCEPT !.error = <<"Backend error: ">> \o out.data.detail]]
    ELSE IF ~out.json
    THEN [status |-> 500, calls |-> 1,
          body |-> [EmptyBody EXCEPT !.error = <<"Failed to split PDF">>]]
    ELSE [status |-> 200, calls |-> 1, body |-> out.data]

(* POST /api/process *)
ProcessProxy(form, out) ==
    IF form.collection_id.type # "string" \/ form.collection_id.text = ""
    THEN [status |-> 400, calls |-> 0,
          body |-> [EmptyBody EXCEPT !.message = <<"Collection ID is required">>]]
    ELSE IF out.kind = "throw"
    THEN [status |-> 500, calls |-> 1,
          body |-> [EmptyBody EXCEPT !.message = FETCH_FAILED]]
    ELSE IF ~out.json
    THEN [status |-> 500, calls |-> 1,
          body |-> [EmptyBody EXCEPT !.message = PARSE_FAILED]]
    ELSE IF ~ResponseOk(out.status)
    THEN [status |-> out.status, calls |-> 1,
          body |-> [EmptyBody EXCEPT
                      !.message = Or(out.data.detail, <<"Failed to process file">>)]]
    ELSE [status |-> 200, calls |-> 1,
          body |-> [EmptyBody EXCEPT
                      !.message = Or(out.data.message, <<"Document processed!">>),
                      !.collection_id = out.data.collection_id,
                      !.filename = out.data.filename]]

(* GET /api/download/[upload_id]/[filename]: on success the body is the file *)
DownloadProxy(upload_id, out) ==
    IF out.kind = "throw"
    THEN [status |-> 500, calls |-> 1,
          body |-> [EmptyBody EXCEPT !.error = <<"Failed to download file">>]]
    ELSE IF ~ResponseOk(out.status)
    THEN [status |-> out.status, calls |-> 1,
          body |-> [EmptyBody EXCEPT !.error = <<"File not found">>]]
    ELSE [status |-> 200, calls |-> 1,
          body |-> [EmptyBody EXCEPT !.filename = out.data.filename]]

SplitOutcomes ==
    { BackendOk([EmptyBody EXCEPT !.upload_id = <<"u1">>]),
      BackendError(500, ERROR_TEXT),
      BackendThrow }

DownloadOutcomes ==
    { BackendOk([EmptyBody EXCEPT !.filename = Doc1]),
      BackendError(404, ERROR_TEXT),
      BackendThrow }

(* DELETE on the backend itself, without a route handler in between *)
DeleteOutcomes ==
    { BackendOk(EmptyBody),
      BackendError(404, ERROR_TEXT) }

----------------------------------------------------------------------------
(* ChatInterface: what runs when a response arrives *)

Request(kind, c, calls, arg) ==
    [kind |-> kind, cid |-> c, live |-> TRUE, calls |-> calls, arg |-> arg]

Remove(seq, i) == SubSeq(seq, 1, i - 1) \o SubSeq(seq, i + 1, Len(seq))

(* The fetches of each component, by the kind of their request *)
ChatKinds == {"history", "chat", "upload"}
PanelKinds == {"send"}
SplitterKinds == {"split", "delete"}

(* A component unmounts while fetches of these kinds are in flight: React
   drops the state updates of their continuations *)
Orphan(reqs, kinds) ==
    [i \in 1..Len(reqs) |->
        IF reqs[i].kind \in kinds THEN [reqs[i] EXCEPT !.live = FALSE] ELSE reqs[i]]

LoadHistoryFetched_IgnoreResponse(st, store, req, failed, resp, now) ==
    [st |-> [st EXCEPT !.isLoadingHistory = FALSE], store |-> store, setMessages |-> FALSE]

(* loadHistory after its fetch, for the request req (req.arg is
   hadStoredMessages); failed: the fetch itself rejected.  Result: the new
   state and the new storage. *)
LoadHistoryFetched(st, store, req, failed, resp, now) ==
    LET c == req.cid
        data == resp.body
        welcome == <<NewMessage(c, "assistant", WELCOME, now, "none")>>
        filenamesFromResponse ==
            IF Len(data.filenames) > 0 THEN data.filenames
            ELSE IF data.filename # <<>> THEN <<data.filename>> ELSE <<>>
        resolvedFilename ==
            IF data.filename # <<>> THEN data.filename
            ELSE IF filenamesFromResponse # <<>> THEN filenamesFromResponse[1]
            ELSE <<>>
        backendMessages ==
            [i \in 1..Len(data.messages) |->
                NewMessage(c, data.messages[i].role, data.messages[i].content,
                           now, "none")]
        ok == ~failed /\ ResponseOk(resp.status)
        st1 == IF ok /\ filenamesFromResponse # <<>>
               THEN [st EXCEPT !.documentNames = filenamesFromResponse] ELSE st
        store1 == IF ok /\ filenamesFromResponse # <<>>
                  THEN SetItem(store, FilenamesKey(c), JsonNames(filenamesFromResponse))
                  ELSE store
        st2 == IF ok /\ resolvedFilename # <<>>
               THEN [st1 EXCEPT !.filename = resolvedFilename] ELSE st1
        store2 == IF ok /\ resolvedFilename # <<>>
                  THEN SetItem(store1, FilenameKey(c), resolvedFilename) ELSE store1
        st3 == IF ok /\ Len(data.messages) > 0
               THEN [st2 EXCEPT !.messages = backendMessages]
               ELSE IF (ok \/ failed) /\ ~req.arg
               THEN [st2 EXCEPT !.messages = welcome]
               ELSE st2
        store3 == IF ok /\ Len(data.messages) > 0
                  THEN SetItem(store2, ChatKey(c), Stringify(backendMessages))
                  ELSE store2
    IN [st |-> [st3 EXCEPT !.isLoadingHistory = FALSE], store |-> store3,
        setMessages |-> (ok /\ Len(data.messages) > 0) \/ ((ok \/ failed) /\ ~req.arg)]

handleSubmitDone_KeepLoading(st, req, failed, resp, now) ==
    LET content == IF failed \/ ~ResponseOk(resp.status) THEN APOLOGY
                   ELSE resp.body.answer
    IN [st EXCEPT !.messages = Append(@, NewMessage(req.cid, "assistant", content,
                                                    now, "none")),
                  !.isLoading = failed \/ ~ResponseOk(resp.status)]

(* handleSubmit after its fetch *)
handleSubmitDone(st, req, failed, resp, now) ==
    LET content == IF failed \/ ~ResponseOk(resp.status) THEN APOLOGY
                   ELSE resp.body.answer
    IN [st EXCEPT !.messages = Append(@, NewMessage(req.cid, "assistant", content,
                                                    now, "none")),
                  !.isLoading = FALSE]

StatusText(name) == <<"Added ">> \o name \o <<" to this chat. You can ask about it right away.">>

Includes(seq, x) == \E i \in 1..Len(seq) : seq[i] = x

uploadAdditionalDocumentDone_AlwaysAppend(st, cur, req, failed, resp, now) ==
    IF ~failed /\ ResponseOk(resp.status)
    THEN [st EXCEPT !.documentNames = Append(@, Or(resp.body.filename, req.arg)),
                    !.filename = Or(@, Or(resp.body.filename, req.arg)),
                    !.isProcessing = FALSE,
                    !.messages = Append(@, NewMessage(req.cid, "assistant",
                                     StatusText(Or(resp.body.filename, req.arg)),
                                     now, "status")),
                    !.isUploadingDoc = FALSE]
    ELSE [st EXCEPT !.isProcessing = FALSE,
                    !.uploadError = IF failed THEN FETCH_FAILED
                                    ELSE Or(resp.body.message,
                                            Or(resp.body.detail, UPLOAD_FAILED)),
                    !.isUploadingDoc = FALSE]

uploadAdditionalDocumentDone_Generic(st, cur, req, failed, resp, now) ==
    LET success == ~failed /\ ResponseOk(resp.status)
        appendedName == Or(resp.body.filename, req.arg)
        status == NewMessage(req.cid, "assistant", StatusText(appendedName), now, "status")
    IN IF success
       THEN [st EXCEPT !.documentNames = IF Includes(@, appendedName) THEN @
                                         ELSE Append(@, appendedName),
                       !.filename = Or(@, appendedName),
                       !.isProcessing = FALSE,
                       !.messages = Append(@, status),
                       !.isUploadingDoc = FALSE]
       ELSE [st EXCEPT !.isProcessing = FALSE,
                       !.uploadError = UPLOAD_FAILED,
                       !.isUploadingDoc = FALSE]

(* uploadAdditionalDocument after its fetch, for the request req (req.arg is
   file.name) in the view now showing collection cur *)
uploadAdditionalDocumentDone(st, cur, req, failed, resp, now) ==
    LET data == resp.body
        success == ~failed /\ ResponseOk(resp.status)
        appendedName == Or(data.filename, req.arg)
        next == IF Includes(st.documentNames, appendedName) THEN st.documentNames
                ELSE Append(st.documentNames, appendedName)
        errorText == IF failed THEN FETCH_FAILED
                     ELSE Or(data.message, Or(data.detail, UPLOAD_FAILED))
        status == NewMessage(req.cid, "assistant", StatusText(appendedName), now, "status")
        heard == handleStorageChange(st, cur,
                     [key |-> ProcessingKey(req.cid), newValue |-> "complete"])
    IN IF success
       THEN [heard EXCEPT !.documentNames = next,
                          !.filename = Or(@, appendedName),
                          !.isProcessing = FALSE,
                          !.messages = Append(@, status),
                          !.isUploadingDoc = FALSE]
       ELSE [heard EXCEPT !.isProcessing = FALSE,
                          !.uploadError = errorText,
                          !.isUploadingDoc = FALSE]

uploadAdditionalDocumentStore_FailureKeepsLock(st, store, req, failed, resp) ==
    IF ~failed /\ ResponseOk(resp.status)
    THEN SetItem(SetItem(SetItem(store, FilenamesKey(req.cid),
                                 JsonNames(IF Includes(st.documentNames,
                                                       Or(resp.body.filename, req.arg))
                                           THEN st.documentNames
                                           ELSE Append(st.documentNames,
                                                       Or(resp.body.filename, req.arg)))),
                         FilenameKey(req.cid), Or(st.filename, Or(resp.body.filename, req.arg))),
                 ProcessingKey(req.cid), "complete")
    ELSE store

(* The local-storage writes of uploadAdditionalDocument after its fetch.  The
   two state updaters write filenames_ and filename_ when React runs them,
   which it does only for a mounted component. *)
uploadAdditionalDocumentStore(st, store, req, failed, resp) ==
    LET data == resp.body
        success == ~failed /\ ResponseOk(resp.status)
        appendedName == Or(data.filename, req.arg)
        next == IF Includes(st.documentNames, appendedName) THEN st.documentNames
                ELSE Append(st.documentNames, appendedName)
        store1 == IF success /\ req.live
                  THEN SetItem(SetItem(store, FilenamesKey(req.cid), JsonNames(next)),
                               FilenameKey(req.cid), Or(st.filename, appendedName))
                  ELSE store
    IN SetItem(store1, ProcessingKey(req.cid), "complete")

(* The storage events the browser queues for the other tabs when tab t changes
   the value of key k to v *)
NativeEvents(ev, t, k, old, v) ==
    [u \in Tabs |->
        IF u \in tabs /\ u # t /\ old # <<v>> THEN ev[u] \cup {[key |-> k, newValue |-> v]}
        ELSE ev[u]]

----------------------------------------------------------------------------
(* Sidebar *)

CollectionSeq == <<"c1", "c2">>

LoadConversationsRead_None(store, now, i) == <<>>

(* loadConversations up to its fetches: one conversation per key that starts
   with chat_ and holds a non-empty value *)
RECURSIVE LoadConversationsRead(_, _, _)
LoadConversationsRead(store, now, i) ==
    IF i > Len(CollectionSeq) THEN <<>>
    ELSE LET key == ChatKey(CollectionSeq[i])
             data == store[key]
             messages == data[1]
             rest == LoadConversationsRead(store, now, i + 1)
         IN IF key \in {k \in ObjectKeys(store) : StartsWith(k, "chat_")}
               /\ data # <<>>
            THEN <<[id |-> key[2],
                    timestamp |-> IF Len(messages) > 0
                                  THEN NewDate(messages[Len(messages)].timestamp)
                                  ELSE now]>> \o rest
            ELSE rest

(* Array.prototype.sort with (a, b) => b.timestamp - a.timestamp: stable,
   newest first *)
RECURSIVE InsertNewestFirst(_, _)
InsertNewestFirst(sorted, x) ==
    IF sorted = <<>> THEN <<x>>
    ELSE IF Head(sorted).timestamp >= x.timestamp
    THEN <<Head(sorted)>> \o InsertNewestFirst(Tail(sorted), x)
    ELSE <<x>> \o sorted

SortNewestFirst_Unsorted(seq) == seq

SortNewestFirst_OnlyNewest(seq) ==
    IF seq = <<>> THEN <<>>
    ELSE <<seq[CHOOSE i \in 1..Len(seq) :
                  \A j \in 1..Len(seq) : seq[j].timestamp <= seq[i].timestamp]>>

RECURSIVE SortNewestFirst(_)
SortNewestFirst(seq) ==
    IF seq = <<>> THEN <<>>
    ELSE InsertNewestFirst(SortNewestFirst(SubSeq(seq, 1, Len(seq) - 1)), seq[Len(seq)])

(* Object.keys(localStorage) comes in an order the browser chooses *)
Orders(seq) ==
    { [i \in 1..Len(seq) |-> seq[p[i]]] :
        p \in {q \in [1..Len(seq) -> 1..Len(seq)] :
                 \A i, j \in 1..Len(seq) : q[i] = q[j] => i = j} }

ConversationIds(list) == {list[i].id : i \in 1..Len(list)}

----------------------------------------------------------------------------
(* FileUploadPanel and uploadClient *)

InitPanel ==
    [selectedFile |-> <<>>, errorMessage |-> <<>>, isSubmitting |-> FALSE,
     apiMessage |-> <<>>]

SUCCESS_FALLBACK_MESSAGE == <<"File sent successfully. Proceeding to slicing...">>
SEND_FAILED == <<"Failed to send file to the backend.">>

(* extractMessage of a JSON payload: its message, <<>> for null *)
extractMessage(payload) == payload.message

(* uploadFile after its fetch: it throws an Error with the message, or
   returns the message *)
uploadFile(failed, resp) ==
    IF failed THEN [threw |-> TRUE, message |-> FETCH_FAILED]
    ELSE IF ~ResponseOk(resp.status)
    THEN [threw |-> TRUE, message |-> Or(extractMessage(resp.body), SEND_FAILED)]
    ELSE [threw |-> FALSE,
          message |-> Or(extractMessage(resp.body), SUCCESS_FALLBACK_MESSAGE)]

(* handleContinue after uploadFile settled: both branches show the message *)
handleContinueDone(st, failed, resp) ==
    [st EXCEPT !.apiMessage = uploadFile(failed, resp).message,
               !.isSubmitting = FALSE]

----------------------------------------------------------------------------
(* PdfSplitter *)

InitSplitter == [file |-> <<>>, loading |-> FALSE, result |-> <<>>, error |-> <<>>]

SPLIT_FAILED == <<"Failed to split PDF">>
DELETE_FAILED == <<"Failed to delete files">>

(* handleSplit after its fetch *)
handleSplitDone(st, failed, resp) ==
    IF failed THEN [st EXCEPT !.error = FETCH_FAILED, !.loading = FALSE]
    ELSE IF ~ResponseOk(resp.status)
    THEN [st EXCEPT !.error = Or(resp.body.error, SPLIT_FAILED), !.loading = FALSE]
    ELSE [st EXCEPT !.result = <<resp.body>>, !.loading = FALSE]

(* handleDelete after its fetch, which went to the backend itself *)
handleDeleteDone(st, failed, out) ==
    IF failed THEN [st EXCEPT !.error = FETCH_FAILED]
    ELSE IF ~ResponseOk(out.status) THEN [st EXCEPT !.error = DELETE_FAILED]
    ELSE [st EXCEPT !.result = <<>>, !.file = <<>>]

----------------------------------------------------------------------------
(* Initial states: every tab shows the upload panel.  Local storage outlives
   the page: it is empty, or holds what an earlier session left for
   collection c1, whose filenames_ entry is then text JSON.parse rejects. *)

EmptyStorage == [k \in Keys |-> <<>>]

EarlierSession ==
    [EmptyStorage EXCEPT
        ![ChatKey("c1")] = <<Stringify(<<NewMessage("c1", "assistant", WELCOME, 0, "none")>>)>>,
        ![FilenameKey("c1")] = <<Doc1>>,
        ![FilenamesKey("c1")] = <<NotJson>>,
        ![ProcessingKey("c1")] = <<"complete">>]

(* What a session leaves when the page is closed while a document is being
   added to a second collection c2: uploadAdditionalDocument has stored
   'in-progress' and its fetch never returns to store 'complete' *)
InterruptedSession ==
    [k \in Keys |->
        IF k = ChatKey("c2")
        THEN <<Stringify(<<NewMessage("c2", "assistant", WELCOME, 0, "none")>>)>>
        ELSE IF k = ProcessingKey("c2") THEN <<"in-progress">>
        ELSE EarlierSession[k]]

Sessions ==
    {[storage |-> EmptyStorage, issued |-> {}],
     [storage |-> EarlierSession, issued |-> {"c1"}]}

InitFrom(open, n, m, sessions) ==
    /\ tabs = open
    /\ limit = n
    /\ \E s \in sessions : storage = s.storage /\ issued = s.issued
    /\ ops = 0
    /\ collectionId = [t \in Tabs |-> Null]
    /\ chat = [t \in Tabs |-> InitChat]
    /\ pending = [t \in Tabs |-> <<>>]
    /\ conversations = [t \in Tabs |-> <<>>]
    /\ runs = [t \in Tabs |-> <<>>]
    /\ events = [t \in Tabs |-> {}]
    /\ formLimit = m
    /\ formOps = 0
    /\ panel = [t \in Tabs |-> InitPanel]
    /\ showSplitModal = [t \in Tabs |-> FALSE]
    /\ splitter = [t \in Tabs |-> InitSplitter]
    /\ opened = [t \in Tabs |-> <<>>]

InitWith(open, n, m) == InitFrom(open, n, m, Sessions)

----------------------------------------------------------------------------
(* Home and ChatInterface: mounting, switching, unmounting *)

Mounted(t) == collectionId[t] # Null

DateNow == ops + 1

(* ChatInterface receives collectionId = c: on mount with the initial state,
   on a change of the prop with the state it has (Home gives it no key).  The
   effects run in the order they are declared: processing status, loadHistory
   (which reads local storage and starts its fetch), save-messages with the
   values of this render; the updates they queued are rendered next, and the
   save-messages effect runs again when messages changed. *)
OpenCollection(t, c) ==
    LET st0 == IF Mounted(t) THEN chat[t] ELSE InitChat
        st1 == checkProcessing(st0, c, storage)
        r == LoadHistoryStored(st1, c, storage)
        store1 == SaveEffect(st0, c, r.store)
        store2 == IF r.hadStoredMessages THEN SaveEffect(r.st, c, store1) ELSE store1
    IN /\ chat' = [chat EXCEPT ![t] = r.st]
       /\ storage' = store2
       /\ pending' = [pending EXCEPT ![t] =
                         Append(Orphan(@, PanelKinds),
                                Request("history", c, 1, r.hadStoredMessages))]
       /\ collectionId' = [collectionId EXCEPT ![t] = c]
       /\ panel' = [panel EXCEPT ![t] = InitPanel]
       /\ UNCHANGED splitter

(* Home renders the upload panel again: ChatInterface and PdfSplitter
   unmount, their state is gone, and what their fetches set when they return
   is dropped *)
Unmount(t) ==
    /\ chat' = [chat EXCEPT ![t] = InitChat]
    /\ pending' = [pending EXCEPT ![t] = Orphan(@, ChatKinds \cup SplitterKinds)]
    /\ collectionId' = [collectionId EXCEPT ![t] = Null]
    /\ splitter' = [splitter EXCEPT ![t] = InitSplitter]
    /\ UNCHANGED panel

(* Home.handleUploadSuccess(c), called by the upload panel with the
   collection id the backend issued for the uploaded file *)
handleUploadSuccess(t, c) ==
    /\ UNCHANGED consts
    /\ ops < limit
    /\ ~Mounted(t)
    /\ c \notin issued
    /\ issued' = issued \cup {c}
    /\ ops' = ops + 1
    /\ OpenCollection(t, c)
    /\ UNCHANGED <<conversations, runs, events, formOps, showSplitModal, opened>>

(* Home.handleSelectConversation(c): a click on an entry of the sidebar *)
handleSelectConversation(t, c) ==
    /\ UNCHANGED consts
    /\ ops < limit
    /\ c \in ConversationIds(conversations[t])
    /\ collectionId[t] # c
    /\ ops' = ops + 1
    /\ OpenCollection(t, c)
    /\ UNCHANGED <<issued, conversations, runs, events, formOps, showSplitModal, opened>>

(* Home.handleNewChat: the sidebar's New Chat button *)
handleNewChat(t) ==
    /\ UNCHANGED consts
    /\ ops < limit
    /\ Mounted(t)
    /\ ops' = ops + 1
    /\ Unmount(t)
    /\ UNCHANGED <<storage, issued, conversations, runs, events, formOps,
                   showSplitModal, opened>>

(* The upload action finishes indexing collection c: it stores the status
   'complete' and the windows are told by a storage event *)
ProcessingComplete(c) ==
    /\ UNCHANGED consts
    /\ c \in issued
    /\ storage[ProcessingKey(c)] # <<"complete">>
    /\ storage' = SetItem(storage, ProcessingKey(c), "complete")
    /\ events' = [t \in Tabs |->
                    IF t \in tabs
                    THEN events[t] \cup {[key |-> ProcessingKey(c), newValue |-> "complete"]}
                    ELSE events[t]]
    /\ UNCHANGED <<issued, ops, collectionId, chat, pending, conversations, runs, formVars>>

(* A queued storage event reaches the window of tab t *)
DeliverStorageEvent(t, e) ==
    /\ UNCHANGED consts
    /\ e \in events[t]
    /\ events' = [events EXCEPT ![t] = @ \ {e}]
    /\ chat' = IF Mounted(t)
               THEN [chat EXCEPT ![t] = handleStorageChange(@, collectionId[t], e)]
               ELSE chat
    /\ UNCHANGED <<storage, issued, ops, collectionId, pending, conversations, runs,
                   formVars>>

----------------------------------------------------------------------------
(* ChatInterface: the question box *)

Inputs == {<<" ">>, <<"h", "i">>}

InputDisabled(st) == st.isLoading \/ st.isProcessing \/ st.isUploadingDoc

(* The textarea's onChange *)
setInput(t, text) ==
    /\ UNCHANGED consts
    /\ Mounted(t)
    /\ ~InputDisabled(chat[t])
    /\ text # chat[t].input
    /\ chat' = [chat EXCEPT ![t].input = text]
    /\ UNCHANGED <<storage, issued, ops, collectionId, pending, conversations, runs,
                   events, formVars>>

SubmitRejected_NoTrim(st) ==
    st.input = <<>> \/ st.isLoading \/ st.isProcessing \/ st.isUploadingDoc

(* The early return of handleSubmit *)
SubmitRejected(st) ==
    Trim(st.input) = <<>> \/ st.isLoading \/ st.isProcessing \/ st.isUploadingDoc

(* handleSubmit up to its fetch *)
handleSubmit(t) ==
    /\ UNCHANGED consts
    /\ Mounted(t)
    /\ IF SubmitRejected(chat[t])
       THEN UNCHANGED vars
       ELSE LET st == chat[t]
                c == collectionId[t]
                userMessage == NewMessage(c, "user", st.input, DateNow, "none")
                form == [question |-> Str(st.input), collection_id |-> Str(c)]
                st1 == [st EXCEPT !.messages = Append(@, userMessage),
                                  !.input = <<>>,
                                  !.isLoading = TRUE]
            IN /\ ops < limit
               /\ ops' = ops + 1
               /\ chat' = [chat EXCEPT ![t] = st1]
               /\ storage' = SaveEffect(st1, c, storage)
               /\ pending' = [pending EXCEPT ![t] =
                     Append(@, Request("chat", c, ChatProxy(form, BackendThrow).calls,
                                       [form |-> form, userMessage |-> userMessage]))]
               /\ UNCHANGED <<issued, collectionId, conversations, runs, events, formVars>>

Wire(outcomes) ==
    {[failed |-> TRUE, out |-> BackendThrow]}
        \cup {[failed |-> FALSE, out |-> o] : o \in outcomes}

(* The response to the i-th pending fetch of tab t, a question, arrives *)
ChatResponse(t, i, w) ==
    /\ UNCHANGED consts
    /\ i \in 1..Len(pending[t])
    /\ pending[t][i].kind = "chat"
    /\ LET req == pending[t][i]
           resp == ChatProxy(req.arg.form, w.out)
           st1 == handleSubmitDone(chat[t], req, w.failed, resp, DateNow)
       IN /\ pending' = [pending EXCEPT ![t] = Remove(@, i)]
          /\ chat' = IF req.live THEN [chat EXCEPT ![t] = st1] ELSE chat
          /\ storage' = IF req.live THEN SaveEffect(st1, collectionId[t], storage)
                        ELSE storage
    /\ UNCHANGED <<issued, ops, collectionId, conversations, runs, events, formVars>>

(* The response to the i-th pending fetch of tab t, a history request, arrives *)
HistoryResponse(t, i, w) ==
    /\ UNCHANGED consts
    /\ i \in 1..Len(pending[t])
    /\ pending[t][i].kind = "history"
    /\ LET req == pending[t][i]
           resp == HistoryProxy(req.cid, w.out)
           r == LoadHistoryFetched(chat[t], storage, req, w.failed, resp, DateNow)
       IN /\ pending' = [pending EXCEPT ![t] = Remove(@, i)]
          /\ chat' = IF req.live THEN [chat EXCEPT ![t] = r.st] ELSE chat
          /\ storage' = IF req.live /\ (r.setMessages \/ chat[t].isLoadingHistory)
                        THEN SaveEffect(r.st, collectionId[t], r.store)
                        ELSE r.store
    /\ UNCHANGED <<issued, ops, collectionId, conversations, runs, events, formVars>>

----------------------------------------------------------------------------
(* ChatInterface: adding a document *)

FileNames == {Doc1, Exe}

AddDisabled(st) == st.isProcessing \/ st.isUploadingDoc

(* handleFileButtonClick, then handleFileInputChange with the chosen file,
   then uploadAdditionalDocument up to its fetch *)
handleFileInputChange(t, name) ==
    /\ UNCHANGED consts
    /\ ops < limit
    /\ Mounted(t)
    /\ ~AddDisabled(chat[t])
    /\ ops' = ops + 1
    /\ LET c == collectionId[t]
           form == [file |-> name, collection_id |-> c]
       IN IF ~isAllowedFile(name)
          THEN /\ chat' = [chat EXCEPT ![t].uploadError = UNSUPPORTED]
               /\ UNCHANGED <<storage, pending, events>>
          ELSE /\ chat' = [chat EXCEPT ![t].isUploadingDoc = TRUE,
                                       ![t].uploadError = <<>>,
                                       ![t].isProcessing = TRUE]
               /\ storage' = SetItem(storage, ProcessingKey(c), "in-progress")
               /\ events' = NativeEvents(events, t, ProcessingKey(c),
                                         storage[ProcessingKey(c)], "in-progress")
               /\ pending' = [pending EXCEPT ![t] =
                     Append(@, Request("upload", c, UploadProxy(form, BackendThrow).calls,
                                       name))]
    /\ UNCHANGED <<issued, collectionId, conversations, runs, formVars>>

(* The response to the i-th pending fetch of tab t, an upload, arrives *)
UploadResponse(t, i, w) ==
    /\ UNCHANGED consts
    /\ i \in 1..Len(pending[t])
    /\ pending[t][i].kind = "upload"
    /\ LET req == pending[t][i]
           form == [file |-> req.arg, collection_id |-> req.cid]
           resp == UploadProxy(form, w.out)
           st1 == uploadAdditionalDocumentDone(chat[t], collectionId[t], req,
                                               w.failed, resp, DateNow)
           store1 == uploadAdditionalDocumentStore(chat[t], storage, req, w.failed, resp)
           appended == Len(st1.messages) # Len(chat[t].messages)
       IN /\ pending' = [pending EXCEPT ![t] = Remove(@, i)]
          /\ chat' = IF req.live THEN [chat EXCEPT ![t] = st1]
                     ELSE IF Mounted(t)
                     THEN [chat EXCEPT ![t] = handleStorageChange(@, collectionId[t],
                              [key |-> ProcessingKey(req.cid), newValue |-> "complete"])]
                     ELSE chat
          /\ storage' = IF req.live /\ appended
                        THEN SaveEffect(st1, collectionId[t], store1) ELSE store1
          /\ events' = NativeEvents(events, t, ProcessingKey(req.cid),
                                    storage[ProcessingKey(req.cid)], "complete")
    /\ UNCHANGED <<issued, ops, collectionId, conversations, runs, formVars>>

----------------------------------------------------------------------------
(* Sidebar *)

(* loadConversations, called on mount and by the 2-second interval, up to
   its fetches *)
loadConversations(t) ==
    /\ UNCHANGED consts
    /\ Len(runs[t]) < MaxRuns
    /\ runs' = [runs EXCEPT ![t] = Append(@, LoadConversationsRead(storage, DateNow, 1))]
    /\ UNCHANGED <<storage, issued, ops, collectionId, chat, pending,
                   conversations, events, formVars>>

(* The fetches of the i-th run of tab t have all returned *)
loadConversationsDone(t, i) ==
    /\ UNCHANGED consts
    /\ i \in 1..Len(runs[t])
    /\ \E validConvos \in Orders(runs[t][i]) :
          conversations' = [conversations EXCEPT ![t] = SortNewestFirst(validConvos)]
    /\ runs' = [runs EXCEPT ![t] = Remove(@, i)]
    /\ UNCHANGED <<storage, issued, ops, collectionId, chat, pending, events, formVars>>

deleteConversation_AllKeys(t, c, confirmed) ==
    /\ UNCHANGED consts
    /\ ops < limit
    /\ c \in ConversationIds(conversations[t])
    /\ ops' = ops + 1
    /\ storage' = [k \in Keys |-> IF k[2] = c THEN <<>> ELSE storage[k]]
    /\ runs' = [runs EXCEPT ![t] = Append(@, LoadConversationsRead(storage', DateNow, 1))]
    /\ Unmount(t)
    /\ UNCHANGED <<issued, conversations, events, formOps, showSplitModal, opened>>

(* deleteConversation(c), from the trash button of an entry of the list;
   confirmed is the user's answer to confirm() *)
deleteConversation(t, c, confirmed) ==
    /\ UNCHANGED consts
    /\ ops < limit
    /\ c \in ConversationIds(conversations[t])
    /\ ops' = ops + 1
    /\ IF confirmed
       THEN /\ storage' = RemoveItem(storage, ChatKey(c))
            /\ runs' = [runs EXCEPT ![t] =
                  Append(@, LoadConversationsRead(RemoveItem(storage, ChatKey(c)), DateNow, 1))]
            /\ IF collectionId[t] = c
               THEN Unmount(t)
               ELSE UNCHANGED <<collectionId, chat, pending, panel, splitter>>
       ELSE UNCHANGED <<storage, runs, collectionId, chat, pending, panel, splitter>>
    /\ UNCHANGED <<issued, conversations, events, formOps, showSplitModal, opened>>

----------------------------------------------------------------------------
(* FileUploadPanel, shown while Home has no collectionId *)

PanelShown(t) == ~Mounted(t)

PanelFiles == {<<>>, Doc1, Exe}

(* handleFileChange of the hidden file input, which is rendered while no file
   is selected; name = <<>>: the picker was dismissed *)
FileUploadPanel_handleFileChange(t, name) ==
    /\ UNCHANGED consts
    /\ formOps < formLimit
    /\ PanelShown(t)
    /\ panel[t].selectedFile = <<>>
    /\ formOps' = formOps + 1
    /\ panel' = [panel EXCEPT ![t] =
          IF name = <<>>
          THEN [@ EXCEPT !.selectedFile = <<>>, !.errorMessage = <<>>]
          ELSE IF ~isAllowedFile(name)
          THEN [@ EXCEPT !.selectedFile = <<>>, !.errorMessage = UNSUPPORTED]
          ELSE [@ EXCEPT !.selectedFile = name, !.errorMessage = <<>>,
                         !.apiMessage = <<>>]]
    /\ UNCHANGED <<chatVars, showSplitModal, splitter, opened>>

handleDrop_AcceptAll(t, name) ==
    /\ UNCHANGED consts
    /\ formOps < formLimit
    /\ PanelShown(t)
    /\ panel[t].selectedFile = <<>>
    /\ formOps' = formOps + 1
    /\ panel' = [panel EXCEPT ![t] =
          IF name = <<>> THEN @
          ELSE [@ EXCEPT !.selectedFile = name, !.errorMessage = <<>>,
                         !.apiMessage = <<>>]]
    /\ UNCHANGED <<chatVars, showSplitModal, splitter, opened>>

(* handleDrop on the drop zone, which is rendered while no file is selected *)
handleDrop(t, name) ==
    /\ UNCHANGED consts
    /\ formOps < formLimit
    /\ PanelShown(t)
    /\ panel[t].selectedFile = <<>>
    /\ formOps' = formOps + 1
    /\ panel' = [panel EXCEPT ![t] =
          IF name = <<>> THEN @
          ELSE IF ~isAllowedFile(name)
          THEN [@ EXCEPT !.errorMessage = UNSUPPORTED]
          ELSE [@ EXCEPT !.selectedFile = name, !.errorMessage = <<>>,
                         !.apiMessage = <<>>]]
    /\ UNCHANGED <<chatVars, showSplitModal, splitter, opened>>

(* handleClear: the Replace file button *)
handleClear(t) ==
    /\ UNCHANGED consts
    /\ formOps < formLimit
    /\ PanelShown(t)
    /\ panel[t].selectedFile # <<>>
    /\ formOps' = formOps + 1
    /\ panel' = [panel EXCEPT ![t] =
          [@ EXCEPT !.selectedFile = <<>>, !.errorMessage = <<>>, !.apiMessage = <<>>]]
    /\ UNCHANGED <<chatVars, showSplitModal, splitter, opened>>

(* handleContinue up to the fetch of uploadFile: the Continue button, which is
   rendered while a file is selected and disabled while isSubmitting *)
handleContinue(t) ==
    /\ UNCHANGED consts
    /\ formOps < formLimit
    /\ PanelShown(t)
    /\ panel[t].selectedFile # <<>>
    /\ ~panel[t].isSubmitting
    /\ formOps' = formOps + 1
    /\ panel' = [panel EXCEPT ![t] = [@ EXCEPT !.isSubmitting = TRUE, !.apiMessage = <<>>]]
    /\ LET form == [file |-> panel[t].selectedFile, collection_id |-> Null]
       IN pending' = [pending EXCEPT ![t] =
             Append(@, Request("send", Null, UploadProxy(form, BackendThrow).calls,
                               panel[t].selectedFile))]
    /\ UNCHANGED <<storage, issued, ops, collectionId, chat, conversations, runs, events,
                   showSplitModal, splitter, opened>>

(* The response to the i-th pending fetch of tab t, the panel's upload, arrives *)
ContinueResponse(t, i, w) ==
    /\ UNCHANGED consts
    /\ i \in 1..Len(pending[t])
    /\ pending[t][i].kind = "send"
    /\ LET req == pending[t][i]
           resp == UploadProxy([file |-> req.arg, collection_id |-> Null], w.out)
       IN /\ pending' = [pending EXCEPT ![t] = Remove(@, i)]
          /\ panel' = IF req.live
                      THEN [panel EXCEPT ![t] = handleContinueDone(@, w.failed, resp)]
                      ELSE panel
    /\ UNCHANGED <<storage, issued, ops, collectionId, chat, conversations, runs, events,
                   formOps, showSplitModal, splitter, opened>>

----------------------------------------------------------------------------
(* PdfSplitter, shown in Home's modal while showSplitModal and collectionId *)

SplitterShown(t) == showSplitModal[t] /\ Mounted(t)

(* Home.handleSplitDocuments: the Split Documents button of the chat header *)
handleSplitDocuments(t) ==
    /\ UNCHANGED consts
    /\ formOps < formLimit
    /\ Mounted(t)
    /\ ~showSplitModal[t]
    /\ formOps' = formOps + 1
    /\ showSplitModal' = [showSplitModal EXCEPT ![t] = TRUE]
    /\ UNCHANGED <<chatVars, panel, splitter, opened>>

(* The Close button of the modal: PdfSplitter unmounts *)
closeSplitModal(t) ==
    /\ UNCHANGED consts
    /\ formOps < formLimit
    /\ SplitterShown(t)
    /\ formOps' = formOps + 1
    /\ showSplitModal' = [showSplitModal EXCEPT ![t] = FALSE]
    /\ splitter' = [splitter EXCEPT ![t] = InitSplitter]
    /\ pending' = [pending EXCEPT ![t] = Orphan(@, SplitterKinds)]
    /\ UNCHANGED <<storage, issued, ops, collectionId, chat, conversations, runs, events,
                   panel, opened>>

SplitterFiles == {<<>>, Doc1}

(* PdfSplitter.handleFileChange; name = <<>>: the picker was dismissed *)
PdfSplitter_handleFileChange(t, name) ==
    /\ UNCHANGED consts
    /\ formOps < formLimit
    /\ SplitterShown(t)
    /\ formOps' = formOps + 1
    /\ splitter' = [splitter EXCEPT ![t] =
          IF name # <<>>
          THEN [@ EXCEPT !.file = name, !.error = <<>>, !.result = <<>>]
          ELSE @]
    /\ UNCHANGED <<chatVars, panel, showSplitModal, opened>>

SplitDisabled(st) == st.file = <<>> \/ st.loading

(* handleSplit up to its fetch: the Split button, disabled without a file and
   while loading, so that the early return for a missing file is not taken *)
handleSplit(t) ==
    /\ UNCHANGED consts
    /\ formOps < formLimit
    /\ SplitterShown(t)
    /\ ~SplitDisabled(splitter[t])
    /\ formOps' = formOps + 1
    /\ splitter' = [splitter EXCEPT ![t] = [@ EXCEPT !.loading = TRUE, !.error = <<>>]]
    /\ LET form == [file |-> splitter[t].file]
       IN pending' = [pending EXCEPT ![t] =
             Append(@, Request("split", Null, SplitProxy(form, BackendThrow).calls,
                               splitter[t].file))]
    /\ UNCHANGED <<storage, issued, ops, collectionId, chat, conversations, runs, events,
                   panel, showSplitModal, opened>>

(* The response to the i-th pending fetch of tab t, a split, arrives *)
SplitResponse(t, i, w) ==
    /\ UNCHANGED consts
    /\ i \in 1..Len(pending[t])
    /\ pending[t][i].kind = "split"
    /\ LET req == pending[t][i]
           resp == SplitProxy([file |-> req.arg], w.out)
       IN /\ pending' = [pending EXCEPT ![t] = Remove(@, i)]
          /\ splitter' = IF req.live
                         THEN [splitter EXCEPT ![t] = handleSplitDone(@, w.failed, resp)]
                         ELSE splitter
    /\ UNCHANGED <<storage, issued, ops, collectionId, chat, conversations, runs, events,
                   formOps, panel, showSplitModal, opened>>

(* handleDownloadSingle: window.open on the download route; the window it
   opens receives what the route handler answers *)
handleDownloadSingle(t, out) ==
    /\ UNCHANGED consts
    /\ formOps < formLimit
    /\ SplitterShown(t)
    /\ splitter[t].result # <<>>
    /\ formOps' = formOps + 1
    /\ opened' = [opened EXCEPT ![t] =
          <<DownloadProxy(splitter[t].result[1].upload_id, out)>>]
    /\ UNCHANGED <<chatVars, panel, showSplitModal, splitter>>

(* handleDelete up to its fetch: the Delete button, shown with a result *)
handleDelete(t) ==
    /\ UNCHANGED consts
    /\ formOps < formLimit
    /\ SplitterShown(t)
    /\ splitter[t].result # <<>>
    /\ formOps' = formOps + 1
    /\ pending' = [pending EXCEPT ![t] =
          Append(@, Request("delete", Null, 1, splitter[t].result[1].upload_id))]
    /\ UNCHANGED <<storage, issued, ops, collectionId, chat, conversations, runs, events,
                   panel, showSplitModal, splitter, opened>>

(* The response to the i-th pending fetch of tab t, a delete, arrives *)
DeleteResponse(t, i, w) ==
    /\ UNCHANGED consts
    /\ i \in 1..Len(pending[t])
    /\ pending[t][i].kind = "delete"
    /\ LET req == pending[t][i]
       IN /\ pending' = [pending EXCEPT ![t] = Remove(@, i)]
          /\ splitter' = IF req.live
                         THEN [splitter EXCEPT ![t] = handleDeleteDone(@, w.failed, w.out)]
                         ELSE splitter
    /\ UNCHANGED <<storage, issued, ops, collectionId, chat, conversations, runs, events,
                   formOps, panel, showSplitModal, opened>>

----------------------------------------------------------------------------
(* isAllowedFile, applied to a file name *)

Alphabet == {".", "p", "d", "f", "o", "c", "x", "F"}

FileNamesUpTo(n) == UNION {[1..k -> Alphabet] : k \in 0..n}

CheckFile ==
    /\ allowed = "unknown"
    /\ allowed' = IF isAllowedFile(fileName) THEN "yes" ELSE "no"
    /\ UNCHANGED <<tabs, limit, formLimit, chatVars, formVars, fileName, call, reply>>

----------------------------------------------------------------------------
(* The route handlers, each applied to one request *)

NoField(empty) == [type |-> "null", text |-> empty]
FileField(empty) == [type |-> "file", text |-> empty]

QuestionFields == {NoField(<<>>), FileField(<<>>), Str(<<>>), Str(<<"q">>)}
CollectionFields == {NoField(""), FileField(""), Str(""), Str("c1")}

(* What the backend may answer to a forwarded request: success and failure
   statuses, with a JSON body or with a body that is not JSON *)
ProxyOutcomes ==
    { BackendOk([EmptyBody EXCEPT !.answer = ANSWER, !.filename = Doc1,
                                  !.upload_id = <<"u1">>]),
      [BackendOk(EmptyBody) EXCEPT !.status = 201],
      BackendText(200, <<"OK">>),
      BackendThrow }
    \cup {BackendError(s, text) : s \in {400, 404, 500}, text \in {<<>>, ERROR_TEXT}}
    \cup {BackendText(s, ERROR_TEXT) : s \in {404, 500, 502}}

Routes == {"chat", "upload", "process", "split-pdf", "download", "history"}

ProxyCalls ==
    {[route |-> "chat", question |-> q, collection_id |-> c, file |-> <<>>, param |-> "",
      out |-> o] : q \in QuestionFields, c \in CollectionFields, o \in ProxyOutcomes}
    \cup {[route |-> "process", question |-> NoField(<<>>), collection_id |-> c,
           file |-> <<>>, param |-> "", out |-> o] :
              c \in CollectionFields, o \in ProxyOutcomes}
    \cup {[route |-> r, question |-> NoField(<<>>), collection_id |-> NoField(""),
           file |-> f, param |-> "", out |-> o] :
              r \in {"upload", "split-pdf"}, f \in {<<>>, Doc1}, o \in ProxyOutcomes}
    \cup {[route |-> "download", question |-> NoField(<<>>),
           collection_id |-> NoField(""), file |-> <<>>, param |-> "u1", out |-> o] :
              o \in ProxyOutcomes}
    \cup {[route |-> "history", question |-> NoField(<<>>),
           collection_id |-> NoField(""), file |-> <<>>, param |-> c, out |-> o] :
              c \in {"", "c1", "c2"}, o \in ProxyOutcomes}

POST_chat ==
    /\ call.route = "chat"
    /\ reply = <<>>
    /\ reply' = <<ChatProxy([question |-> call.question,
                            collection_id |-> call.collection_id], call.out)>>
    /\ UNCHANGED <<tabs, limit, formLimit, chatVars, formVars, fileName, allowed, call>>

POST_upload ==
    /\ call.route = "upload"
    /\ reply = <<>>
    /\ reply' = <<UploadProxy([file |-> call.file, collection_id |-> Null], call.out)>>
    /\ UNCHANGED <<tabs, limit, formLimit, chatVars, formVars, fileName, allowed, call>>

POST_process ==
    /\ call.route = "process"
    /\ reply = <<>>
    /\ reply' = <<ProcessProxy([collection_id |-> call.collection_id], call.out)>>
    /\ UNCHANGED <<tabs, limit, formLimit, chatVars, formVars, fileName, allowed, call>>

POST_split_pdf ==
    /\ call.route = "split-pdf"
    /\ reply = <<>>
    /\ reply' = <<SplitProxy([file |-> call.file], call.out)>>
    /\ UNCHANGED <<tabs, limit, formLimit, chatVars, formVars, fileName, allowed, call>>

GET_download ==
    /\ call.route = "download"
    /\ reply = <<>>
    /\ reply' = <<DownloadProxy(call.param, call.out)>>
    /\ UNCHANGED <<tabs, limit, formLimit, chatVars, formVars, fileName, allowed, call>>

GET_history ==
    /\ call.route = "history"
    /\ reply = <<>>
    /\ reply' = <<HistoryProxy(call.param, call.out)>>
    /\ UNCHANGED <<tabs, limit, formLimit, chatVars, formVars, fileName, allowed, call>>

----------------------------------------------------------------------------

(* Home and ChatInterface *)
ChatStep ==
    \/ \E t \in tabs, c \in Collections : handleUploadSuccess(t, c)
    \/ \E t \in tabs : handleNewChat(t)
    \/ \E c \in Collections : ProcessingComplete(c)
    \/ \E t \in tabs : \E e \in events[t] : DeliverStorageEvent(t, e)
    \/ \E t \in tabs, text \in Inputs : setInput(t, text)
    \/ \E t \in tabs : handleSubmit(t)
    \/ \E t \in tabs : \E i \in 1..Len(pending[t]), w \in Wire(ChatOutcomes) :
          ChatResponse(t, i, w)
    \/ \E t \in tabs : \E i \in 1..Len(pending[t]), w \in Wire(HistoryOutcomes) :
          HistoryResponse(t, i, w)
    \/ \E t \in tabs, name \in FileNames : handleFileInputChange(t, name)
    \/ \E t \in tabs : \E i \in 1..Len(pending[t]), w \in Wire(UploadOutcomes) :
          UploadResponse(t, i, w)

(* Sidebar *)
SidebarStep ==
    \/ \E t \in tabs, c \in Collections : handleSelectConversation(t, c)
    \/ \E t \in tabs : loadConversations(t)
    \/ \E t \in tabs : \E i \in 1..Len(runs[t]) : loadConversationsDone(t, i)
    \/ \E t \in tabs, c \in Collections, confirmed \in BOOLEAN :
          deleteConversation(t, c, confirmed)

(* FileUploadPanel and PdfSplitter *)
FormStep ==
    \/ \E t \in tabs, name \in PanelFiles : FileUploadPanel_handleFileChange(t, name)
    \/ \E t \in tabs, name \in PanelFiles : handleDrop(t, name)
    \/ \E t \in tabs : handleClear(t)
    \/ \E t \in tabs : handleContinue(t)
    \/ \E t \in tabs : \E i \in 1..Len(pending[t]), w \in Wire(UploadOutcomes) :
          ContinueResponse(t, i, w)
    \/ \E t \in tabs : handleSplitDocuments(t)
    \/ \E t \in tabs : closeSplitModal(t)
    \/ \E t \in tabs, name \in SplitterFiles : PdfSplitter_handleFileChange(t, name)
    \/ \E t \in tabs : handleSplit(t)
    \/ \E t \in tabs : \E i \in 1..Len(pending[t]), w \in Wire(SplitOutcomes) :
          SplitResponse(t, i, w)
    \/ \E t \in tabs, out \in DownloadOutcomes : handleDownloadSingle(t, out)
    \/ \E t \in tabs : handleDelete(t)
    \/ \E t \in tabs : \E i \in 1..Len(pending[t]), w \in Wire(DeleteOutcomes) :
          DeleteResponse(t, i, w)

(* One tab whose user leaves the upload panel and the splitter alone *)
Next == ChatStep \/ SidebarStep

Init ==
    /\ InitWith({"t1"}, MaxOps, 0)
    /\ fileName = <<>>
    /\ allowed = "unknown"
    /\ call = <<>>
    /\ reply = <<>>

Spec == Init /\ [][Next]_vars

(* The same, with the sidebar's interval timer firing as long as the page is
   open and the history fetches of every run returning: the oldest run still
   waiting is the first of runs *)
SidebarFairness ==
    \A t \in Tabs :
        /\ WF_vars(t \in tabs /\ loadConversations(t))
        /\ WF_vars(t \in tabs /\ loadConversationsDone(t, 1))

SpecSidebar == Init /\ [][Next]_vars /\ SidebarFairness

(* One tab followed for one more user operation, local storage possibly
   holding two earlier collections: enough to open a conversation, switch to
   another, and add a document or ask a question *)
InitSwitch ==
    /\ InitFrom({"t1"}, MaxOpsSwitch, 0,
                Sessions \cup {[storage |-> InterruptedSession, issued |-> {"c1", "c2"}]})
    /\ fileName = <<>>
    /\ allowed = "unknown"
    /\ call = <<>>
    /\ reply = <<>>

SpecSwitch == InitSwitch /\ [][Next]_vars

(* One tab in which every issued request is answered, every storage event is
   delivered, and the indexing of a newly uploaded collection comes to its
   end *)
UnlockFairness ==
    /\ \A c \in Collections :
          WF_vars(storage[ProcessingKey(c)] = <<>> /\ ProcessingComplete(c))
    /\ \A t \in Tabs :
          /\ WF_vars(t \in tabs /\ \E e \in events[t] : DeliverStorageEvent(t, e))
          /\ WF_vars(t \in tabs /\ \E i \in 1..Len(pending[t]), w \in Wire(UploadOutcomes) :
                                      UploadResponse(t, i, w))
          /\ WF_vars(t \in tabs /\ \E i \in 1..Len(pending[t]), w \in Wire(HistoryOutcomes) :
                                      HistoryResponse(t, i, w))
          /\ WF_vars(t \in tabs /\ \E i \in 1..Len(pending[t]), w \in Wire(ChatOutcomes) :
                                      ChatResponse(t, i, w))

SpecUnlock == Init /\ [][Next]_vars /\ UnlockFairness

(* Two tabs on the same local storage *)
InitTabs ==
    /\ InitWith(Tabs, MaxOpsTabs, 0)
    /\ fileName = <<>>
    /\ allowed = "unknown"
    /\ call = <<>>
    /\ reply = <<>>

SpecTabs == InitTabs /\ [][Next]_vars

(* One tab whose user works the upload panel and the splitter and leaves the
   sidebar alone *)
NextForms == ChatStep \/ FormStep

InitForms ==
    /\ InitWith({"t1"}, MaxOpsForms, MaxFormOps)
    /\ fileName = <<>>
    /\ allowed = "unknown"
    /\ call = <<>>
    /\ reply = <<>>

SpecForms == InitForms /\ [][NextForms]_vars

(* isAllowedFile on every file name of at most MaxNameLen characters *)
InitAllowed ==
    /\ InitWith({"t1"}, 0, 0)
    /\ storage = EmptyStorage
    /\ fileName \in FileNamesUpTo(MaxNameLen)
    /\ allowed = "unknown"
    /\ call = <<>>
    /\ reply = <<>>

NextAllowed == CheckFile

SpecAllowed == InitAllowed /\ [][NextAllowed]_vars

(* Every route handler on every request of ProxyCalls *)
InitProxy ==
    /\ InitWith({"t1"}, 0, 0)
    /\ storage = EmptyStorage
    /\ fileName = <<>>
    /\ allowed = "unknown"
    /\ call \in ProxyCalls
    /\ reply = <<>>

NextProxy ==
    \/ POST_chat
    \/ POST_upload
    \/ POST_process
    \/ POST_split_pdf
    \/ GET_download
    \/ GET_history

SpecProxy == InitProxy /\ [][NextProxy]_vars

----------------------------------------------------------------------------
(* Properties *)

Last(seq) == seq[Len(seq)]

LiveRequests(t, kind) ==
    {i \in 1..Len(pending[t]) : pending[t][i].kind = kind /\ pending[t][i].live}

(* The backend answered with a non-success status and an error text *)
Fails(out) == out.kind = "error" /\ out.json /\ out.data.detail # <<>>

(* C1, transcript isolation: in every reachable state the value stored under
   chat_<c> holds only messages that were typed in, answered for or loaded
   for conversation c. *)
C1_TranscriptIsolation ==
    \A c \in Collections :
        storage[ChatKey(c)] # <<>> =>
            \A i \in 1..Len(storage[ChatKey(c)][1]) : storage[ChatKey(c)][1][i].conv = c

Saving(st) == Len(st.messages) > 0 /\ ~st.isLoadingHistory

DepsChanged(t) ==
    \/ chat'[t].messages # chat[t].messages
    \/ chat'[t].isLoadingHistory # chat[t].isLoadingHistory
    \/ collectionId'[t] # collectionId[t]

(* C2, snapshot persistence: in every step that changes the message list, the
   loading flag or the collection of a chat view which then has a non-empty
   list and has finished loading history, chat_<collectionId> afterwards holds
   exactly the serialization of the displayed list; in a step after which the
   view is unmounted, has an empty list or is still loading, a chat_ key
   changes only by being removed or by loadHistory storing the backend's
   transcript of its own collection. *)
C2_SnapshotPersistence ==
    [][\A t \in tabs :
          /\ (collectionId'[t] # Null /\ DepsChanged(t) /\ Saving(chat'[t]))
                => storage'[ChatKey(collectionId'[t])] = <<Stringify(chat'[t].messages)>>
          /\ (collectionId'[t] = Null \/ ~Saving(chat'[t]))
                => \A c \in Collections :
                      storage'[ChatKey(c)] # storage[ChatKey(c)] =>
                         \/ storage'[ChatKey(c)] = <<>>
                         \/ \E i \in 1..Len(pending[t]), w \in Wire(HistoryOutcomes) :
                               HistoryResponse(t, i, w) /\ pending[t][i].cid = c
      ]_vars

C2_Witness ==
    \E t \in tabs :
        /\ Mounted(t)
        /\ Saving(chat[t])
        /\ Len(chat[t].messages) >= 2
        /\ storage[ChatKey(collectionId[t])] = <<Stringify(chat[t].messages)>>

Removed(k) == storage[k] # <<>> /\ storage'[k] = <<>>

(* C3 as the specification states it: a local-storage key is removed only by
   a confirmed delete-conversation action of the sidebar. *)
C3_OnlyConfirmedDelete ==
    [][\A k \in Keys :
          Removed(k) => \E t \in tabs, c \in Collections : deleteConversation(t, c, TRUE)
      ]_vars

(* C3, amended: a local-storage key is removed only by a confirmed
   delete-conversation action, which removes chat_<c>, or by the chat view's
   loadHistory when it opens collection c, which removes filenames_<c> when the
   stored value is not JSON. *)
C3_DeleteOrUnparsableNames ==
    [][\A k \in Keys :
          Removed(k) =>
             \/ /\ k[1] = "chat_"
                /\ \E t \in tabs : deleteConversation(t, k[2], TRUE)
             \/ /\ k[1] = "filenames_"
                /\ ~storage[k][1].ok
                /\ \E t \in tabs : collectionId'[t] = k[2] /\ collectionId[t] # k[2]
      ]_vars

C3_Witness ==
    /\ storage[ChatKey("c1")] = <<>>
    /\ storage[FilenamesKey("c1")] = <<>>
    /\ storage[FilenameKey("c1")] = <<Doc1>>
    /\ storage[ProcessingKey("c1")] = <<"complete">>

(* C4 as the specification states it: when the backend answers with a
   non-success status and an error text, the message shown for the action is
   that text, for a question, an added document, a file download and a split
   alike. *)
C4_BackendTextShown ==
    [][\A t \in tabs :
          /\ \A i \in 1..Len(pending[t]) :
                LET req == pending[t][i]
                IN /\ (req.live /\ req.kind = "chat") =>
                         \A w \in Wire(ChatOutcomes) :
                            (~w.failed /\ Fails(w.out) /\ ChatResponse(t, i, w))
                               => Last(chat'[t].messages).content = w.out.data.detail
                   /\ (req.live /\ req.kind = "upload") =>
                         \A w \in Wire(UploadOutcomes) :
                            (~w.failed /\ Fails(w.out) /\ UploadResponse(t, i, w))
                               => chat'[t].uploadError = w.out.data.detail
                   /\ (req.live /\ req.kind = "split") =>
                         \A w \in Wire(SplitOutcomes) :
                            (~w.failed /\ Fails(w.out) /\ SplitResponse(t, i, w))
                               => splitter'[t].error = w.out.data.detail
          /\ opened'[t] # opened[t] =>
                \A out \in DownloadOutcomes :
                   (Fails(out) /\ handleDownloadSingle(t, out))
                      => opened'[t][1].body.error = out.data.detail
      ]_vars

(* C4, amended: when the backend answers with a non-success status and an
   error text, an added document and the upload panel show that text, a split
   shows it after the words "Backend error: ", a question shows the fixed
   apology and a file download the route handler's fixed "File not found". *)
C4_ErrorShownPerAction ==
    [][\A t \in tabs :
          /\ \A i \in 1..Len(pending[t]) :
                LET req == pending[t][i]
                IN /\ (req.live /\ req.kind = "chat") =>
                         \A w \in Wire(ChatOutcomes) :
                            (~w.failed /\ Fails(w.out) /\ ChatResponse(t, i, w))
                               => Last(chat'[t].messages).content = APOLOGY
                   /\ (req.live /\ req.kind = "upload") =>
                         \A w \in Wire(UploadOutcomes) :
                            (~w.failed /\ Fails(w.out) /\ UploadResponse(t, i, w))
                               => chat'[t].uploadError = w.out.data.detail
                   /\ (req.live /\ req.kind = "send") =>
                         \A w \in Wire(UploadOutcomes) :
                            (~w.failed /\ Fails(w.out) /\ ContinueResponse(t, i, w))
                               => panel'[t].apiMessage = w.out.data.detail
                   /\ (req.live /\ req.kind = "split") =>
                         \A w \in Wire(SplitOutcomes) :
                            (~w.failed /\ Fails(w.out) /\ SplitResponse(t, i, w))
                               => splitter'[t].error = <<"Backend error: ">> \o w.out.data.detail
          /\ opened'[t] # opened[t] =>
                \A out \in DownloadOutcomes :
                   (Fails(out) /\ handleDownloadSingle(t, out))
                      => opened'[t][1].body.error = <<"File not found">>
      ]_vars

C4_Witness ==
    \E t \in tabs :
        /\ Mounted(t)
        /\ chat[t].uploadError = ERROR_TEXT
        /\ ~chat[t].isUploadingDoc

(* C5, no retry: a step adds at most one request to those in flight, every
   request makes its route handler call the backend at most once, and the step
   that handles a response, failed or not, issues no request and leaves the
   component that waited for it idle (isLoading, isUploadingDoc, isSubmitting,
   loading false). *)
C5_NoRetry ==
    [][\A t \in tabs :
          /\ Len(pending'[t]) <= Len(pending[t]) + 1
          /\ \A i \in 1..Len(pending'[t]) : pending'[t][i].calls <= 1
          /\ \A i \in 1..Len(pending[t]) :
                LET req == pending[t][i]
                    handled == Len(pending'[t]) = Len(pending[t]) - 1
                IN /\ (req.kind = "chat" /\ \E w \in Wire(ChatOutcomes) : ChatResponse(t, i, w))
                         => handled /\ (req.live => ~chat'[t].isLoading)
                   /\ (req.kind = "upload" /\ \E w \in Wire(UploadOutcomes) : UploadResponse(t, i, w))
                         => handled /\ (req.live => ~chat'[t].isUploadingDoc)
                   /\ (req.kind = "send" /\ \E w \in Wire(UploadOutcomes) : ContinueResponse(t, i, w))
                         => handled /\ (req.live => ~panel'[t].isSubmitting)
                   /\ (req.kind = "split" /\ \E w \in Wire(SplitOutcomes) : SplitResponse(t, i, w))
                         => handled /\ (req.live => ~splitter'[t].loading)
                   /\ (req.kind = "delete" /\ \E w \in Wire(DeleteOutcomes) : DeleteResponse(t, i, w))
                         => handled
      ]_vars

C5_Witness ==
    \E t \in tabs :
        /\ Mounted(t)
        /\ chat[t].messages # <<>>
        /\ Last(chat[t].messages).content = APOLOGY
        /\ ~chat[t].isLoading
        /\ LiveRequests(t, "chat") = {}

(* C6, sequential questions: a chat view has exactly one /api/chat request
   in flight while isLoading is true and none while it is false. *)
C6_SequentialQuestions ==
    \A t \in tabs :
        Cardinality(LiveRequests(t, "chat")) = IF chat[t].isLoading THEN 1 ELSE 0

C6_Witness ==
    \E t \in tabs :
        /\ chat[t].isLoading
        /\ Cardinality(LiveRequests(t, "chat")) = 1
        /\ LiveRequests(t, "history") # {}

(* C7, processing-status propagation: when a storage event with newValue
   'complete' reaches a window, its chat view sets isProcessing to false if
   the event's key is processing_<collectionId> of the view and is unchanged
   otherwise, and no other window's view changes; a view that opens a
   collection whose processing_ key already holds 'complete' has isProcessing
   false. *)
C7_ProcessingPropagation ==
    [][\A t \in tabs :
          /\ \A e \in events[t] :
                (DeliverStorageEvent(t, e) /\ e.newValue = "complete") =>
                   /\ (Mounted(t) /\ e.key = ProcessingKey(collectionId[t]))
                         => ~chat'[t].isProcessing
                   /\ (Mounted(t) /\ e.key # ProcessingKey(collectionId[t]))
                         => chat'[t] = chat[t]
                   /\ \A u \in tabs \ {t} : chat'[u] = chat[u]
          /\ (/\ collectionId'[t] # Null
              /\ collectionId'[t] # collectionId[t]
              /\ storage[ProcessingKey(collectionId'[t])] = <<"complete">>)
                => ~chat'[t].isProcessing
      ]_vars

C7_Witness ==
    \E t \in tabs, u \in tabs :
        /\ Mounted(t) /\ Mounted(u)
        /\ collectionId[t] # collectionId[u]
        /\ chat[t].isProcessing /\ chat[u].isProcessing
        /\ [key |-> ProcessingKey(collectionId[t]), newValue |-> "complete"] \in events[t]
        /\ [key |-> ProcessingKey(collectionId[t]), newValue |-> "complete"] \in events[u]

StoredChats(store) == {c \in Collections : store[ChatKey(c)] # <<>>}

OncePerId(list) == \A i, j \in 1..Len(list) : list[i].id = list[j].id => i = j

(* C8, the conversation list is sourced from local storage: a
   loadConversations run starts with one conversation for each chat_ key that
   holds a value at that moment, its id the key without the prefix, and no
   other; when the run completes the sidebar list holds exactly the
   conversations of that run, each once. *)
C8_ListFromStorage ==
    [][\A t \in tabs :
          /\ Len(runs'[t]) > Len(runs[t]) =>
                /\ ConversationIds(Last(runs'[t])) = StoredChats(storage')
                /\ OncePerId(Last(runs'[t]))
          /\ Len(runs'[t]) < Len(runs[t]) =>
                \E i \in 1..Len(runs[t]) :
                    /\ runs'[t] = Remove(runs[t], i)
                    /\ ConversationIds(conversations'[t]) = ConversationIds(runs[t][i])
                    /\ Len(conversations'[t]) = Len(runs[t][i])
                    /\ OncePerId(conversations'[t])
      ]_vars

C8_Witness ==
    \E t \in tabs :
        /\ Len(conversations[t]) = 2
        /\ ConversationIds(conversations[t]) = StoredChats(storage)
        /\ runs[t] = <<>>

(* C9, question/answer pairing: an accepted submission appends one user
   message carrying the typed text; when its request completes in the view
   that sent it, one assistant message is appended (the answer, or the fixed
   apology on failure) to a list that still holds that user message, and
   isLoading is false afterwards. *)
C9_QuestionAnswerPairing ==
    [][\A t \in tabs :
          /\ (Cardinality(LiveRequests(t, "chat")') > Cardinality(LiveRequests(t, "chat")))
                => /\ chat'[t].messages = Append(chat[t].messages, Last(chat'[t].messages))
                   /\ Last(chat'[t].messages).role = "user"
                   /\ Last(chat'[t].messages).content = chat[t].input
          /\ \A i \in 1..Len(pending[t]), w \in Wire(ChatOutcomes) :
                (ChatResponse(t, i, w) /\ pending[t][i].live) =>
                   /\ chat'[t].messages = Append(chat[t].messages, Last(chat'[t].messages))
                   /\ Last(chat'[t].messages).role = "assistant"
                   /\ Last(chat'[t].messages).content =
                         IF ~w.failed /\ w.out.kind = "ok" THEN w.out.data.answer ELSE APOLOGY
                   /\ Includes(chat[t].messages, pending[t][i].arg.userMessage)
                   /\ ~chat'[t].isLoading
      ]_vars

EndsWith(s, suffix) ==
    Len(s) >= Len(suffix) /\ SubSeq(s, Len(s) - Len(suffix) + 1, Len(s)) = suffix

DottedExtensions == {<<".">> \o ext : ext \in ALLOWED_EXTENSIONS}

(* C10, only PDF and Word files are accepted: isAllowedFile returns true for
   a file name exactly when the name, lower-cased, ends with ".pdf", ".doc"
   or ".docx". *)
C10_ExtensionDecides ==
    allowed # "unknown" =>
        ((allowed = "yes") <=>
            \E ext \in DottedExtensions : EndsWith(ToLowerCase(fileName), ext))

(* The route handler called the backend and this is what it answered *)
Answered(routes) == reply # <<>> /\ call.route \in routes /\ reply[1].calls > 0

(* C11, proxy status pass-through: for the chat, upload, process, split-pdf
   and download handlers, a backend response with a non-success status s makes
   the handler respond with status s, a backend call that throws makes it
   respond with 500, and the handler responds with a success status only when
   the backend responded with one. *)
C11_StatusPassThrough ==
    Answered(Routes \ {"history"}) =>
        /\ (call.out.kind = "error") => reply[1].status = call.out.status
        /\ (call.out.kind = "throw") => reply[1].status = 500
        /\ ResponseOk(reply[1].status) => call.out.kind = "ok"

(* C12, the chat-history handler never surfaces a backend failure: for a
   non-empty collection id it responds 200, with the body {messages: [],
   collection_id: id} when the backend responded with a non-success status or
   the call threw; it responds 400 exactly when the id is empty, and then
   without a backend request. *)
C12_HistoryNeverFails ==
    (reply # <<>> /\ call.route = "history") =>
        /\ (call.param # "") => reply[1].status = 200
        /\ (call.param # "" /\ call.out.kind \in {"error", "throw"}) =>
              /\ reply[1].body.messages = <<>>
              /\ reply[1].body.collection_id = <<call.param>>
              /\ reply[1].body = [EmptyBody EXCEPT !.collection_id = <<call.param>>]
        /\ (reply[1].status = 400) <=> (call.param = "")
        /\ (call.param = "") => reply[1].calls = 0

C12_Witness ==
    /\ reply # <<>>
    /\ call.route = "history"
    /\ call.param = "c1"
    /\ call.out.kind = "error"
    /\ call.out.status = 500
    /\ reply[1].status = 200
    /\ reply[1].body.messages = <<>>

NonEmptyString(field, empty) == field.type = "string" /\ field.text # empty

(* C13, chat handler input validation: a question that is missing, empty or
   not a string is answered 400 'Question is required'; otherwise a collection
   id that is missing, empty or not a string is answered 400 'Collection ID is
   required'; in both cases the backend is not called, and it is called
   exactly when both fields are non-empty strings. *)
C13_ChatValidation ==
    (reply # <<>> /\ call.route = "chat") =>
        LET goodQuestion == NonEmptyString(call.question, <<>>)
            goodCollection == NonEmptyString(call.collection_id, "")
        IN /\ ~goodQuestion =>
                 /\ reply[1].status = 400
                 /\ reply[1].body.error = <<"Question is required">>
                 /\ reply[1].calls = 0
           /\ (goodQuestion /\ ~goodCollection) =>
                 /\ reply[1].status = 400
                 /\ reply[1].body.error = <<"Collection ID is required">>
                 /\ reply[1].calls = 0
           /\ (reply[1].calls > 0) <=> (goodQuestion /\ goodCollection)

C13_Witness ==
    /\ reply # <<>>
    /\ call.route = "chat"
    /\ call.question = Str(<<"q">>)
    /\ call.collection_id.type = "file"
    /\ reply[1].status = 400
    /\ reply[1].body.error = <<"Collection ID is required">>

(* C14, the sidebar keeps up with storage: if the timer keeps firing and the
   fetches of every run return, then whenever the set of chat_ keys in local
   storage stops changing, the ids of the displayed list eventually equal that
   set and stay equal to it from then on. *)
C14_SidebarKeepsUp ==
    \A S \in SUBSET Collections :
        <>[](StoredChats(storage) = S)
            => <>[](\A t \in tabs : ConversationIds(conversations[t]) = S)

C14_Witness ==
    \E t \in tabs :
        /\ StoredChats(storage) = {"c2"}
        /\ ConversationIds(conversations[t]) = {"c2"}
        /\ runs[t] = <<>>

(* C15, submission gate: while the input of a chat view is blank after
   trimming, or isLoading, isProcessing or isUploadingDoc is true, handleSubmit
   changes nothing, and no step issues a /api/chat request for that view. *)
C15_SubmissionGate ==
    [][\A t \in tabs :
          (/\ Mounted(t)
           /\ \/ Trim(chat[t].input) = <<>>
              \/ chat[t].isLoading
              \/ chat[t].isProcessing
              \/ chat[t].isUploadingDoc)
             => /\ Cardinality(LiveRequests(t, "chat")') <= Cardinality(LiveRequests(t, "chat"))
                /\ handleSubmit(t) =>
                      /\ chat'[t].messages = chat[t].messages
                      /\ chat'[t].input = chat[t].input
                      /\ chat'[t].isLoading = chat[t].isLoading
                      /\ pending' = pending
      ]_vars

C15_Witness ==
    \E t \in tabs :
        /\ Mounted(t)
        /\ Trim(chat[t].input) # <<>>
        /\ chat[t].isProcessing
        /\ chat[t].isUploadingDoc
        /\ ~chat[t].isLoading

(* C16, an additional-document upload always releases the processing lock:
   the step that starts an upload stores 'in-progress' under processing_<c>
   and sets isProcessing and isUploadingDoc; the step that handles its
   response, success or failure, stores 'complete' under processing_<c> and,
   in the view that waited, clears isProcessing and isUploadingDoc; on failure
   documentNames, filename and the message list keep their values and
   uploadError is set, on success exactly one status message is appended. *)
C16_UploadReleasesLock ==
    [][\A t \in tabs :
          /\ Cardinality(LiveRequests(t, "upload")') > Cardinality(LiveRequests(t, "upload"))
                => /\ storage'[ProcessingKey(collectionId[t])] = <<"in-progress">>
                   /\ chat'[t].isProcessing
                   /\ chat'[t].isUploadingDoc
          /\ \A i \in 1..Len(pending[t]) :
                pending[t][i].kind = "upload" =>
                   \A w \in Wire(UploadOutcomes) :
                      UploadResponse(t, i, w) =>
                         LET req == pending[t][i]
                             success == ~w.failed /\ w.out.kind = "ok" /\ w.out.json
                         IN /\ storage'[ProcessingKey(req.cid)] = <<"complete">>
                            /\ req.live =>
                                  /\ ~chat'[t].isProcessing
                                  /\ ~chat'[t].isUploadingDoc
                                  /\ success =>
                                        /\ chat'[t].messages =
                                              Append(chat[t].messages, Last(chat'[t].messages))
                                        /\ Last(chat'[t].messages).variant = "status"
                                        /\ Last(chat'[t].messages).role = "assistant"
                                  /\ ~success =>
                                        /\ chat'[t].documentNames = chat[t].documentNames
                                        /\ chat'[t].filename = chat[t].filename
                                        /\ chat'[t].messages = chat[t].messages
                                        /\ chat'[t].uploadError # <<>>
      ]_vars

C16_Witness ==
    \E t \in tabs :
        /\ Mounted(t)
        /\ chat[t].uploadError = FETCH_FAILED
        /\ ~chat[t].isProcessing
        /\ ~chat[t].isUploadingDoc
        /\ storage[ProcessingKey(collectionId[t])] = <<"complete">>
        /\ LiveRequests(t, "upload") = {}

(* C17, history load precedence: when the history request of a chat view
   completes successfully, then (i) if the backend returned messages, the
   displayed list is those messages in the backend's order and chat_<c> holds
   their serialization; (ii) if it returned none and a transcript was stored,
   the displayed list is kept, and in the view still showing c it is the
   transcript stored under chat_<c>; (iii) if it returned none and nothing was
   stored, the list is the single welcome message.  In every case, also when
   the request fails, isLoadingHistory is false afterwards. *)
C17_HistoryPrecedence ==
    [][\A t \in tabs : \A i \in 1..Len(pending[t]) :
          (pending[t][i].kind = "history" /\ pending[t][i].live) =>
             \A w \in Wire(HistoryOutcomes) :
                HistoryResponse(t, i, w) =>
                   LET req == pending[t][i]
                       c == req.cid
                       returned == IF w.out.kind = "ok" /\ w.out.json
                                   THEN w.out.data.messages ELSE <<>>
                       shown == chat'[t].messages
                   IN /\ ~chat'[t].isLoadingHistory
                      /\ (~w.failed /\ returned # <<>>) =>
                            /\ Len(shown) = Len(returned)
                            /\ \A j \in 1..Len(returned) :
                                   /\ shown[j].role = returned[j].role
                                   /\ shown[j].content = returned[j].content
                            /\ storage'[ChatKey(c)] = <<Stringify(shown)>>
                      /\ (~w.failed /\ returned = <<>> /\ req.arg) =>
                            /\ shown = chat[t].messages
                            /\ collectionId[t] = c =>
                                   storage'[ChatKey(c)] = <<Stringify(shown)>>
                      /\ (~w.failed /\ returned = <<>> /\ ~req.arg) =>
                            /\ Len(shown) = 1
                            /\ shown[1].role = "assistant"
                            /\ shown[1].content = WELCOME
      ]_vars

C17_Witness ==
    \E t \in tabs :
        /\ collectionId[t] = "c1"
        /\ ~chat[t].isLoadingHistory
        /\ Len(chat[t].messages) = 1
        /\ chat[t].messages[1].content = ANSWER
        /\ storage[ChatKey("c1")] = <<Stringify(chat[t].messages)>>
        /\ LiveRequests(t, "history") = {}

(* C18, sidebar ordering: a loadConversations run gives each conversation
   the timestamp of the last message stored for it, and when the run completes
   the list is ordered by that timestamp, newest first. *)
C18_NewestFirst ==
    [][\A t \in tabs :
          /\ Len(runs'[t]) > Len(runs[t]) =>
                \A j \in 1..Len(Last(runs'[t])) :
                   LET conv == Last(runs'[t])[j]
                       messages == storage'[ChatKey(conv.id)][1]
                   IN conv.timestamp = NewDate(Last(messages).timestamp)
          /\ Len(runs'[t]) < Len(runs[t]) =>
                \A j \in 1..(Len(conversations'[t]) - 1) :
                   conversations'[t][j].timestamp >= conversations'[t][j + 1].timestamp
      ]_vars

C18_Witness ==
    \E t \in tabs :
        /\ Len(conversations[t]) = 2
        /\ conversations[t][1].id = "c2"
        /\ conversations[t][1].timestamp > conversations[t][2].timestamp
        /\ runs[t] = <<>>

(* C19, effect of deleting a conversation: a confirmed deleteConversation(c)
   removes chat_<c> and leaves every other local-storage key as it was; the
   selection becomes null when c was selected and is unchanged otherwise; a
   declined confirmation changes neither storage nor selection. *)
C19_DeleteEffect ==
    [][\A t \in tabs, c \in Collections :
          /\ deleteConversation(t, c, TRUE) =>
                /\ storage' = [storage EXCEPT ![ChatKey(c)] = <<>>]
                /\ collectionId'[t] = IF collectionId[t] = c THEN Null ELSE collectionId[t]
                /\ \A u \in tabs \ {t} : collectionId'[u] = collectionId[u]
          /\ deleteConversation(t, c, FALSE) =>
                /\ storage' = storage
                /\ collectionId' = collectionId
      ]_vars

C19_Witness ==
    \E t \in tabs :
        /\ storage[ChatKey("c1")] = <<>>
        /\ storage[FilenameKey("c1")] = <<Doc1>>
        /\ storage[ProcessingKey("c1")] = <<"complete">>
        /\ collectionId[t] = Null
        /\ \E i \in 1..Len(pending[t]) :
              pending[t][i].cid = "c1" /\ ~pending[t][i].live

(* C20, upload panel selection invariant: after every step selectedFile is
   null or a file isAllowedFile accepts; choosing or dropping a file that
   isAllowedFile rejects does not make it the selected file and sets the
   'Unsupported file type' error; a step sends the panel's upload request only
   when selectedFile is non-null, and sends that file. *)
C20_OnlyAllowedSelected ==
    [][\A t \in tabs :
          /\ panel'[t].selectedFile = <<>> \/ isAllowedFile(panel'[t].selectedFile)
          /\ formOps' # formOps =>
                \A name \in PanelFiles :
                   (/\ name # <<>>
                    /\ ~isAllowedFile(name)
                    /\ FileUploadPanel_handleFileChange(t, name) \/ handleDrop(t, name))
                      => /\ panel'[t].selectedFile # name
                         /\ panel'[t].errorMessage = UNSUPPORTED
          /\ (/\ Len(pending'[t]) > Len(pending[t])
              /\ Last(pending'[t]).kind = "send")
                => /\ panel[t].selectedFile # <<>>
                   /\ Last(pending'[t]).arg = panel[t].selectedFile
      ]_vars

C20_Witness ==
    \E t \in tabs :
        /\ PanelShown(t)
        /\ panel[t].selectedFile = <<>>
        /\ panel[t].errorMessage = UNSUPPORTED
        /\ \E i \in 1..Len(pending[t]) : pending[t][i].kind = "send"

(* C21 as the specification states it: a successful additional upload whose
   resolved name is already in documentNames leaves documentNames and
   filenames_<c> unchanged; otherwise the name is appended at the end; no
   duplicate name is introduced and a filename that is set is not changed. *)
C21_AddIsIdempotent ==
    [][\A t \in tabs : \A i \in 1..Len(pending[t]) :
          (pending[t][i].kind = "upload" /\ pending[t][i].live) =>
             \A w \in Wire(UploadOutcomes) :
                (~w.failed /\ w.out.kind = "ok" /\ UploadResponse(t, i, w)) =>
                   LET req == pending[t][i]
                       name == Or(w.out.data.filename, req.arg)
                       names == chat[t].documentNames
                   IN /\ Includes(names, name) =>
                            /\ chat'[t].documentNames = names
                            /\ storage'[FilenamesKey(req.cid)] = storage[FilenamesKey(req.cid)]
                      /\ ~Includes(names, name) =>
                            chat'[t].documentNames = Append(names, name)
                      /\ chat[t].filename # <<>> => chat'[t].filename = chat[t].filename
                      /\ (\A j, k \in 1..Len(names) : names[j] = names[k] => j = k) =>
                            \A j, k \in 1..Len(chat'[t].documentNames) :
                               chat'[t].documentNames[j] = chat'[t].documentNames[k] => j = k
      ]_vars

(* C21, amended: a successful additional upload whose resolved name is
   already in documentNames leaves documentNames unchanged, otherwise the name
   is appended at the end; in both cases filenames_<c> is overwritten with the
   resulting list; no duplicate name is introduced and a filename that is set
   is not changed. *)
C21_AddRewritesNames ==
    [][\A t \in tabs : \A i \in 1..Len(pending[t]) :
          (pending[t][i].kind = "upload" /\ pending[t][i].live) =>
             \A w \in Wire(UploadOutcomes) :
                (~w.failed /\ w.out.kind = "ok" /\ UploadResponse(t, i, w)) =>
                   LET req == pending[t][i]
                       name == Or(w.out.data.filename, req.arg)
                       names == chat[t].documentNames
                   IN /\ Includes(names, name) => chat'[t].documentNames = names
                      /\ ~Includes(names, name) =>
                            chat'[t].documentNames = Append(names, name)
                      /\ storage'[FilenamesKey(req.cid)] =
                            <<JsonNames(chat'[t].documentNames)>>
                      /\ chat[t].filename # <<>> => chat'[t].filename = chat[t].filename
                      /\ (\A j, k \in 1..Len(names) : names[j] = names[k] => j = k) =>
                            \A j, k \in 1..Len(chat'[t].documentNames) :
                               chat'[t].documentNames[j] = chat'[t].documentNames[k] => j = k
      ]_vars

C21_Witness ==
    \E t \in tabs :
        /\ Mounted(t)
        /\ chat[t].documentNames = <<Doc1>>
        /\ \E j, k \in 1..Len(chat[t].messages) :
              /\ j < k
              /\ chat[t].messages[j].variant = "status"
              /\ chat[t].messages[k].variant = "status"
              /\ chat[t].messages[j].content = StatusText(Doc1)
              /\ chat[t].messages[k].content = StatusText(Doc1)

----------------------------------------------------------------------------
(* C22: no question during processing.  Whenever a chat view sends a question
   (handleSubmit issues its fetch) for collection c, the stored status
   processing_<c> is 'complete' at that moment; this is to hold for every
   view, a view switched to c from another collection included. *)
C22_NoQuestionDuringProcessing ==
    [][\A t \in Tabs :
          (/\ Len(pending'[t]) > Len(pending[t])
           /\ Last(pending'[t]).kind = "chat")
          => storage[ProcessingKey(Last(pending'[t]).cid)] = <<"complete">>]_vars

(* C23: the chat eventually unlocks.  Provided every issued request is
   answered, a chat view that shows collection c does not stay locked: as long
   as it keeps showing c, isProcessing becomes false, which enables the
   question input and the Add button once no question or upload of the view
   is in flight. *)
C23_EventuallyUnlocked ==
    \A t \in Tabs, c \in Collections :
        (collectionId[t] = c) ~> (collectionId[t] # c \/ ~chat[t].isProcessing)

(* A view opened on a newly uploaded collection, locked at first, is unlocked
   and idle: the input and the Add button are enabled *)
C23_Witness ==
    /\ collectionId["t1"] = "c2"
    /\ ~InputDisabled(chat["t1"])
    /\ ~AddDisabled(chat["t1"])

(* Local storage holds a filename or a list of document names for c *)
StoredNames(c) == storage[FilenameKey(c)] # <<>> \/ storage[FilenamesKey(c)] # <<>>

(* C24: no stale history.  Once no history request of a chat view is
   outstanding, what the view displays belongs to the collection it shows:
   every displayed message is one of that collection, and a displayed
   filename or document list is backed by names stored for that collection;
   in particular a response for a collection the view was switched away from
   has not replaced them. *)
C24_NoStaleHistory ==
    \A t \in Tabs :
        (Mounted(t) /\ LiveRequests(t, "history") = {}) =>
            /\ \A i \in 1..Len(chat[t].messages) :
                  chat[t].messages[i].conv = collectionId[t]
            /\ chat[t].documentNames # <<>> => StoredNames(collectionId[t])
            /\ chat[t].filename # <<>> => StoredNames(collectionId[t])

====
